---- MODULE Spec2Model ----
(***************************************************************************)
(* The user-account service of bff-example: registration and login         *)
(* (UserService over UserRepository, CryptoProvider and JwtProvider) and   *)
(* the two request gates (AuthMiddleware, ServiceAuthMiddleware).          *)
(*                                                                         *)
(* Conventions.  A JavaScript value that may be null/undefined is a        *)
(* sequence of length 0 (absent) or 1 (present).  A header string is a     *)
(* sequence of atoms: a character [ch |-> c] or a compact JWT [jwt |-> t]  *)
(* (a JWT contains no space, so it is one atom).  Other strings that the   *)
(* code only compares for equality are TLA+ strings.                       *)
(***************************************************************************)
EXTENDS Integers, Sequences, FiniteSets

VARIABLES
  store,   \* the 'users' collection: accounts in insertion (natural) order
  now,     \* the clock, in the unit of the token's iat/exp
  req,     \* per request slot: the UserService call in flight and its position
  held,    \* a token returned by an earlier login that a client still holds
  gate,    \* the last gate invocation: its request, reply and call record
  boot,    \* the server process: environment, startup position, what it built
  http     \* the HTTP boundary: the UserService built in, per slot the request and reply

vars == <<store, now, req, held, gate, boot, http>>

\* ---------------------------------------------------------------- bounds

MaxSlots == 2
MaxUsers == 2
MaxTime == 3
MaxRetries == 3
MaxServed == 2

Slots == 1..MaxSlots

\* ------------------------------------------------------------ input sets

Emails == {"a@b.com", "c@d.com"}
Passwords == {"secret1", "secret2"}
Salts == {"s1", "s2"}

Null == <<>>
Some(x) == <<x>>

\* ------------------------------------------------------------- app errors

AppError(name, message, statusCode, code) ==
  [name |-> name, message |-> message, statusCode |-> statusCode, code |-> code]

\* ValidationError: an AppError that also carries field-level details.
ValidationError(message, details) ==
  [name |-> "ValidationError", message |-> message, statusCode |-> 400,
   code |-> "VALIDATION_ERROR", details |-> details]

ConflictError(message) == AppError("ConflictError", message, 409, "CONFLICT_ERROR")

NotFoundError(message) == AppError("NotFoundError", message, 404, "NOT_FOUND_ERROR")

BadRequestError(message) == AppError("BadRequestError", message, 400, "BAD_REQUEST_ERROR")

\* An exception that is no AppError (a driver or bcrypt failure).
PlainError(message) == [name |-> "Error", message |-> message]

\* ----------------------------------------------------------- CryptoProvider

SALT_ROUNDS == 10

\* bcrypt.hash: the output embeds the cost and a salt drawn per call.
hashPassword(password, salt) ==
  [alg |-> "bcrypt", rounds |-> SALT_ROUNDS, salt |-> salt, digest |-> <<password, salt>>]

\* bcrypt.compare: recompute with the salt embedded in the hash.
comparePassword(password, hashedPassword) ==
  hashedPassword.digest = <<password, hashedPassword.salt>>

\* ----------------------------------------------------------- UserRepository

RECURSIVE FirstMatch(_, _, _)
FirstMatch(coll, email, i) ==
  IF i > Len(coll) THEN Null
  ELSE IF coll[i].email = email THEN Some(coll[i])
  ELSE FirstMatch(coll, email, i + 1)

\* collection.findOne({email}): the first match in natural order, or null.
findOneByEmail(coll, email) == FirstMatch(coll, email, 1)

\* An insert that overwrites the newest document instead of adding one.
create_overwrite(coll, user) ==
  LET id == IF coll = <<>> THEN 1 ELSE Len(coll)
      doc == [f \in DOMAIN user \cup {"_id"} |-> IF f = "_id" THEN id ELSE user[f]]
  IN  IF coll = <<>> THEN <<doc>> ELSE [coll EXCEPT ![Len(coll)] = doc]

\* collection.insertOne(user): the document as it was handed over, with the
\* fresh _id the driver assigns; no unique index.
create(coll, user) ==
  Append(coll, [f \in DOMAIN user \cup {"_id"} |->
                  IF f = "_id" THEN Len(coll) + 1 ELSE user[f]])

\* ------------------------------------------------------------- JwtProvider

JWT_SECRET == "jwt-secret"
JWT_EXPIRES_IN == 2

DigitChars == <<"0", "1", "2", "3", "4", "5", "6", "7", "8", "9">>

\* ObjectId.toString(): the identifier rendered as a string of digits.
RECURSIVE toString(_)
toString(n) ==
  IF n < 10 THEN <<DigitChars[n + 1]>>
  ELSE toString(n \div 10) \o <<DigitChars[(n % 10) + 1]>>

\* The HMAC of a message under a key.
Hmac(key, msg) == [key |-> key, msg |-> msg]

\* jwt.sign(payload, secret, {expiresIn}): adds iat and exp, signs the claims.
jwtSign(payload, secret, expiresIn, t) ==
  LET claims == [userId |-> payload.userId, email |-> payload.email,
                 iat |-> t, exp |-> t + expiresIn]
  IN  [claims |-> claims, sig |-> Hmac(secret, claims)]

\* jwt.verify that never looks at the expiry.
jwtVerify_ignoreExpiration(token, secret, t) ==
  IF ~(Len(token) = 1 /\ DOMAIN token[1] = {"jwt"})
    THEN [ok |-> FALSE, cause |-> "JsonWebTokenError: jwt malformed", decoded |-> Null]
  ELSE IF token[1].jwt.sig # Hmac(secret, token[1].jwt.claims)
    THEN [ok |-> FALSE, cause |-> "JsonWebTokenError: invalid signature", decoded |-> Null]
  ELSE [ok |-> TRUE, cause |-> "", decoded |-> Some(token[1].jwt.claims)]

\* jwt.verify(token, secret): structure, then signature, then expiry.
jwtVerify(token, secret, t) ==
  IF ~(Len(token) = 1 /\ DOMAIN token[1] = {"jwt"})
    THEN [ok |-> FALSE, cause |-> "JsonWebTokenError: jwt malformed", decoded |-> Null]
  ELSE IF token[1].jwt.sig # Hmac(secret, token[1].jwt.claims)
    THEN [ok |-> FALSE, cause |-> "JsonWebTokenError: invalid signature", decoded |-> Null]
  ELSE IF t >= token[1].jwt.claims.exp
    THEN [ok |-> FALSE, cause |-> "TokenExpiredError: jwt expired", decoded |-> Null]
  ELSE [ok |-> TRUE, cause |-> "", decoded |-> Some(token[1].jwt.claims)]

\* JwtProvider.sign
sign(payload, t) == jwtSign(payload, JWT_SECRET, JWT_EXPIRES_IN, t)

\* A verify that rethrows the error of jwt.verify as it is.
verify_rethrow(token, t, fault) ==
  LET r == jwtVerify(token, JWT_SECRET, t)
  IN  IF fault \/ ~r.ok
        THEN [ok |-> FALSE, error |-> IF fault THEN "Unexpected error" ELSE r.cause,
              decoded |-> Null]
        ELSE [ok |-> TRUE, error |-> "", decoded |-> r.decoded]

\* JwtProvider.verify: every failure of jwt.verify, and any other exception it
\* raises (fault), is rethrown as Error('Invalid or expired token').
verify(token, t, fault) ==
  LET r == jwtVerify(token, JWT_SECRET, t)
  IN  IF fault \/ ~r.ok
        THEN [ok |-> FALSE, error |-> "Invalid or expired token", decoded |-> Null]
        ELSE [ok |-> TRUE, error |-> "", decoded |-> r.decoded]

\* ------------------------------------------------------------- UserService

\* A request slot with no call in flight.  calls: the collaborator methods
\* the request has invoked so far; seen: how many documents the collection
\* held when the request's lookup read it; inserted: the _id it persisted
\* (0: none).
IdleSlot ==
  [op |-> "none", pc |-> "idle", email |-> "", password |-> "",
   existingUser |-> Null, hashedPassword |-> Null, error |-> Null,
   result |-> Null, seen |-> 0, inserted |-> 0, calls |-> {}]

Thrown(slot, error) == [slot EXCEPT !.pc = "done", !.error = Some(error)]

\* The request's lookup has read the collection.
Read(slot, coll) == [slot EXCEPT !.seen = Len(coll)]

\* createUser that starts the lookup and hashPassword together.
createUser_call_eager(email, password) ==
  [IdleSlot EXCEPT !.op = "createUser", !.pc = "find", !.email = email,
                   !.password = password, !.calls = {"findOneByEmail", "hashPassword"}]

\* createUser up to its first await: findOneByEmail(user.email) is invoked.
createUser_call(email, password) ==
  [IdleSlot EXCEPT !.op = "createUser", !.pc = "find", !.email = email,
                   !.password = password, !.calls = {"findOneByEmail"}]

\* createUser_find without the existence check: the lookup's result is ignored.
createUser_find_unchecked(slot, coll, fail) ==
  IF fail THEN Thrown(Read(slot, coll), PlainError("findOne failed"))
  ELSE [Read(slot, coll) EXCEPT !.pc = "hash", !.calls = @ \cup {"hashPassword"}]

\* createUser resumed with the lookup's outcome (fail: the driver rejected);
\* on a miss it goes on to invoke hashPassword(user.password).
createUser_find(slot, coll, fail) ==
  LET existingUser == findOneByEmail(coll, slot.email)
  IN  IF fail THEN Thrown(Read(slot, coll), PlainError("findOne failed"))
      ELSE IF existingUser # Null
        THEN Thrown([Read(slot, coll) EXCEPT !.existingUser = existingUser],
                    ConflictError("There is already a user with this email."))
      ELSE [Read(slot, coll) EXCEPT !.pc = "hash", !.calls = @ \cup {"hashPassword"}]

\* createUser resumed with hashPassword's outcome (fail: bcrypt rejected);
\* on success it goes on to invoke userRepository.create.
createUser_hash(slot, salt, fail) ==
  IF fail THEN Thrown(slot, PlainError("bcrypt hashing failed"))
  ELSE [slot EXCEPT !.pc = "insert", !.calls = @ \cup {"create"},
                    !.hashedPassword = Some(hashPassword(slot.password, salt))]

\* A document that carries the registration password next to its hash.
createUser_document_raw(slot) ==
  [email |-> slot.email, password |-> slot.hashedPassword[1], raw |-> slot.password]

\* The document createUser hands to userRepository.create.
createUser_document(slot) ==
  [email |-> slot.email, password |-> slot.hashedPassword[1]]

\* createUser resumed with the insert's outcome (fail: the write was rejected).
createUser_insert(slot, coll, fail) ==
  LET after == create(coll, createUser_document(slot))
      insertedId == after[Len(after)]._id
  IN  IF fail THEN [slot |-> Thrown(slot, PlainError("insertOne failed")), coll |-> coll]
      ELSE [slot |-> [slot EXCEPT !.pc = "done", !.inserted = insertedId,
                                  !.result = Some([insertedId |-> insertedId])],
            coll |-> after]

\* authenticateUser up to its first await.
authenticateUser_call(email, password) ==
  [IdleSlot EXCEPT !.op = "authenticateUser", !.pc = "find", !.email = email,
                   !.password = password, !.calls = {"findOneByEmail"}]

\* authenticateUser_find that reports an unknown email as a bad request.
authenticateUser_find_badrequest(slot, coll, fail) ==
  LET user == findOneByEmail(coll, slot.email)
  IN  IF fail THEN Thrown(Read(slot, coll), PlainError("findOne failed"))
      ELSE IF user = Null
        THEN Thrown(Read(slot, coll), BadRequestError("Invalid email or password."))
      ELSE [Read(slot, coll) EXCEPT !.pc = "compare", !.existingUser = user,
                        !.calls = @ \cup {"comparePassword"}]

\* authenticateUser resumed with the lookup's outcome; on a hit it goes on
\* to invoke comparePassword(password, user.password).
authenticateUser_find(slot, coll, fail) ==
  LET user == findOneByEmail(coll, slot.email)
  IN  IF fail THEN Thrown(Read(slot, coll), PlainError("findOne failed"))
      ELSE IF user = Null THEN Thrown(Read(slot, coll), NotFoundError("User not found."))
      ELSE [Read(slot, coll) EXCEPT !.pc = "compare", !.existingUser = user,
                        !.calls = @ \cup {"comparePassword"}]

\* The claims authenticateUser signs: user._id?.toString() || '' and the email.
authenticateUser_payload(user) ==
  [userId |-> toString(user._id), email |-> user.email]

\* authenticateUser_compare that signs a token whatever the comparison says.
authenticateUser_compare_unchecked(slot, t, fail) ==
  LET user == slot.existingUser[1]
  IN  IF fail THEN Thrown(slot, PlainError("bcrypt compare failed"))
      ELSE [slot EXCEPT !.pc = "done", !.calls = @ \cup {"sign"},
              !.result = Some([user |-> user,
                               token |-> sign(authenticateUser_payload(user), t)])]

\* authenticateUser that returns the account without its password.
authenticateUser_compare_redacted(slot, t, fail) ==
  LET user == slot.existingUser[1]
      passwordMatch == comparePassword(slot.password, user.password)
  IN  IF fail THEN Thrown(slot, PlainError("bcrypt compare failed"))
      ELSE IF ~passwordMatch
        THEN Thrown(slot, BadRequestError("Invalid email or password."))
      ELSE [slot EXCEPT !.pc = "done", !.calls = @ \cup {"sign"},
              !.result = Some([user |-> [_id |-> user._id, email |-> user.email],
                               token |-> sign(authenticateUser_payload(user), t)])]

\* authenticateUser resumed with comparePassword's outcome; on a match the
\* token is signed in the same turn and {user, token} is returned.
authenticateUser_compare(slot, t, fail) ==
  LET user == slot.existingUser[1]
      passwordMatch == comparePassword(slot.password, user.password)
  IN  IF fail THEN Thrown(slot, PlainError("bcrypt compare failed"))
      ELSE IF ~passwordMatch
        THEN Thrown(slot, BadRequestError("Invalid email or password."))
      ELSE [slot EXCEPT !.pc = "done", !.calls = @ \cup {"sign"},
              !.result = Some([user |-> user,
                               token |-> sign(authenticateUser_payload(user), t)])]

\* ---------------------------------------------------------- header strings

Ch(c) == [ch |-> c]

\* The string whose characters are cs.
Str(cs) == [i \in 1..Len(cs) |-> Ch(cs[i])]

SP == Str(<<" ">>)

Upper == <<"A", "B", "C", "E", "I", "R", "S", "X">>
Lower == <<"a", "b", "c", "e", "i", "r", "s", "x">>

\* One character lowered, as the regular expression's i flag compares it.
toLowerCase(a) ==
  IF \E i \in 1..Len(Upper) : a = Ch(Upper[i])
    THEN Ch(Lower[CHOOSE i \in 1..Len(Upper) : a = Ch(Upper[i])])
    ELSE a

\* String.prototype.split(' '): the pieces between single spaces, empty
\* pieces included; the empty string splits into one empty piece.
RECURSIVE splitFrom(_, _, _)
splitFrom(s, i, piece) ==
  IF i > Len(s) THEN <<piece>>
  ELSE IF s[i] = Ch(" ") THEN <<piece>> \o splitFrom(s, i + 1, <<>>)
  ELSE splitFrom(s, i + 1, Append(piece, s[i]))

\* A split on runs of spaces, as split(/ +/) would do.
split_runs(s) == SelectSeq(splitFrom(s, 1, <<>>), LAMBDA piece : piece # <<>>)

split(s) == splitFrom(s, 1, <<>>)

\* /^Bearer$/i.test(scheme)
isBearer(scheme) ==
  [i \in 1..Len(scheme) |-> toLowerCase(scheme[i])] = Str(<<"b", "e", "a", "r", "e", "r">>)

\* ---------------------------------------------------------- AuthMiddleware

Unauthorized(message) == [status |-> 401, error |-> "Unauthorized", message |-> message]

InternalServerError ==
  [status |-> 500, error |-> "Internal Server Error", message |-> "Authentication failed"]

\* What one run of a gate leaves behind: the replies sent, request.user, the
\* arguments the verifier was called with, and the exception raised inside
\* ("none", "invalid-token": the verifier refused the token, "unexpected").
Outcome(replies, user, verifyCalls, exception) ==
  [replies |-> replies, user |-> user, verifyCalls |-> verifyCalls, exception |-> exception]

\* The body of authenticate's outer try block.  authorization:
\* request.headers.authorization; verifierFault: the verifier throws for a
\* reason other than the token.
authenticate_try(authorization, userBefore, t, verifierFault) ==
  IF authorization = Null \/ authorization[1] = <<>>
    THEN Outcome(<<Unauthorized("No token provided")>>, userBefore, <<>>, "none")
  ELSE LET parts == split(authorization[1])
       IN  IF Len(parts) # 2
             THEN Outcome(<<Unauthorized("Invalid token format")>>, userBefore, <<>>, "none")
           ELSE IF ~isBearer(parts[1])
             THEN Outcome(<<Unauthorized("Token must be Bearer type")>>, userBefore, <<>>, "none")
           ELSE LET decoded == verify(parts[2], t, verifierFault)
                IN  IF decoded.ok
                      THEN Outcome(<<>>, decoded.decoded, <<parts[2]>>, "none")
                      ELSE Outcome(<<Unauthorized("Invalid or expired token")>>, userBefore,
                                   <<parts[2]>>,
                                   IF verifierFault THEN "unexpected" ELSE "invalid-token")

\* authenticate whose inner catch also clears request.user.
AuthMiddleware_authenticate_clears(authorization, userBefore, t, fault) ==
  LET out == authenticate_try(authorization, userBefore, t, fault = "verifier")
  IN  IF fault = "request"
        THEN Outcome(<<InternalServerError>>, userBefore, <<>>, "unexpected")
      ELSE IF out.replies # <<>> /\ out.verifyCalls # <<>>
        THEN [out EXCEPT !.user = Null]
      ELSE out

\* AuthMiddleware.authenticate: the try block, and the outer catch for an
\* exception raised outside the verification (fault = "request": reading the
\* request throws).
AuthMiddleware_authenticate(authorization, userBefore, t, fault) ==
  IF fault = "request"
    THEN Outcome(<<InternalServerError>>, userBefore, <<>>, "unexpected")
    ELSE authenticate_try(authorization, userBefore, t, fault = "verifier")

\* ------------------------------------------------ ServiceTokenProvider, gate

SERVICE_TOKEN == "service-token"

\* A verify that accepts every string.
ServiceTokenProvider_verify_any(token) == token = token

\* ServiceTokenProvider.verify
ServiceTokenProvider_verify(token) == token = SERVICE_TOKEN

\* request.headers['x-token']: undefined, a string, or an array of strings.
Undefined == [type |-> "undefined", vals |-> <<>>]
StringValue(v) == [type |-> "string", vals |-> <<v>>]
ArrayValue(vs) == [type |-> "object", vals |-> vs]

\* A test for undefined alone.
falsy_undefined(x) == x.type = "undefined"

\* JavaScript's !x for a header value: undefined and '' are falsy.
falsy(x) == x.type = "undefined" \/ (x.type = "string" /\ x.vals[1] = "")

\* authenticate whose verify call sits in a catch of its own that answers 401.
ServiceAuthMiddleware_authenticate_inner(xToken, userBefore, fault) ==
  IF fault = "request"
    THEN Outcome(<<InternalServerError>>, userBefore, <<>>, "unexpected")
  ELSE IF falsy(xToken)
    THEN Outcome(<<Unauthorized("No service token provided")>>, userBefore, <<>>, "none")
  ELSE IF xToken.type # "string"
    THEN Outcome(<<Unauthorized("Invalid token format")>>, userBefore, <<>>, "none")
  ELSE IF fault = "verifier" \/ ~ServiceTokenProvider_verify(xToken.vals[1])
    THEN Outcome(<<Unauthorized("Invalid service token")>>, userBefore,
                 <<xToken.vals[1]>>, IF fault = "verifier" THEN "unexpected" ELSE "none")
  ELSE Outcome(<<>>, userBefore, <<xToken.vals[1]>>, "none")

\* authenticate whose first rejection lacks its return: a request without a
\* token is answered by the first check and again by the type check.
ServiceAuthMiddleware_authenticate_fallthrough(xToken, userBefore, fault) ==
  IF fault = "request"
    THEN Outcome(<<InternalServerError>>, userBefore, <<>>, "unexpected")
  ELSE IF falsy(xToken) /\ xToken.type # "string"
    THEN Outcome(<<Unauthorized("No service token provided"),
                   Unauthorized("Invalid token format")>>, userBefore, <<>>, "none")
  ELSE IF falsy(xToken)
    THEN Outcome(<<Unauthorized("No service token provided"),
                   Unauthorized("Invalid service token")>>, userBefore,
                 <<xToken.vals[1]>>, "none")
  ELSE IF xToken.type # "string"
    THEN Outcome(<<Unauthorized("Invalid token format")>>, userBefore, <<>>, "none")
  ELSE IF fault = "verifier"
    THEN Outcome(<<InternalServerError>>, userBefore, <<xToken.vals[1]>>, "unexpected")
  ELSE IF ~ServiceTokenProvider_verify(xToken.vals[1])
    THEN Outcome(<<Unauthorized("Invalid service token")>>, userBefore,
                 <<xToken.vals[1]>>, "none")
  ELSE Outcome(<<>>, userBefore, <<xToken.vals[1]>>, "none")

\* ServiceAuthMiddleware.authenticate
ServiceAuthMiddleware_authenticate(xToken, userBefore, fault) ==
  IF fault = "request"
    THEN Outcome(<<InternalServerError>>, userBefore, <<>>, "unexpected")
  ELSE IF falsy(xToken)
    THEN Outcome(<<Unauthorized("No service token provided")>>, userBefore, <<>>, "none")
  ELSE IF xToken.type # "string"
    THEN Outcome(<<Unauthorized("Invalid token format")>>, userBefore, <<>>, "none")
  ELSE IF fault = "verifier"
    THEN Outcome(<<InternalServerError>>, userBefore, <<xToken.vals[1]>>, "unexpected")
  ELSE IF ~ServiceTokenProvider_verify(xToken.vals[1])
    THEN Outcome(<<Unauthorized("Invalid service token")>>, userBefore,
                 <<xToken.vals[1]>>, "none")
  ELSE Outcome(<<>>, userBefore, <<xToken.vals[1]>>, "none")

\* ------------------------------------------------------- requests to gates

\* The compact token string of a signed token.
Compact(token) == <<[jwt |-> token]>>

\* Tokens a client can present: the one it holds, that one with its expiry
\* rewritten but the old signature, one signed with another secret, a string
\* that is no token, and the empty string.
PresentedTokens(h, t) ==
  (IF h = Null THEN {}
   ELSE {Compact(h[1]),
         Compact([h[1] EXCEPT !.claims.exp = MaxTime + 1])})
  \cup {Compact(jwtSign([userId |-> toString(1), email |-> "a@b.com"],
                        "another-secret", JWT_EXPIRES_IN, t)),
        Str(<<"x">>), <<>>}

Schemes ==
  {Str(<<"B", "e", "a", "r", "e", "r">>), Str(<<"b", "e", "a", "r", "e", "r">>),
   Str(<<"B", "E", "A", "R", "E", "R">>), Str(<<"B", "a", "s", "i", "c">>),
   Str(<<"B", "e", "a", "r", "e", "r", "x">>), <<>>}

Bearer == Str(<<"B", "e", "a", "r", "e", "r">>)

\* The token a client would rather present: the held one, else a forged one.
Preferred(h, t) ==
  IF h # Null THEN Compact(h[1])
  ELSE Compact(jwtSign([userId |-> toString(1), email |-> "a@b.com"],
                       "another-secret", JWT_EXPIRES_IN, t))

\* Values of request.headers.authorization: absent, empty, one word, every
\* scheme with a token, Bearer with every token, and headers with more spaces.
AuthorizationHeaders(h, t) ==
  {Null, Some(<<>>), Some(Bearer), Some(SP)}
  \cup {Some(sch \o SP \o Preferred(h, t)) : sch \in Schemes}
  \cup {Some(Bearer \o SP \o tok) : tok \in PresentedTokens(h, t)}
  \cup {Some(Bearer \o SP \o SP \o Preferred(h, t)),
        Some(Bearer \o SP \o Preferred(h, t) \o SP \o Str(<<"x">>))}

\* Values of request.headers['x-token'].
XTokenHeaders ==
  {Undefined, StringValue(""), StringValue(SERVICE_TOKEN), StringValue("wrong-token"),
   ArrayValue(<<SERVICE_TOKEN>>), ArrayValue(<<SERVICE_TOKEN, SERVICE_TOKEN>>),
   ArrayValue(<<>>)}

\* request.user before the gate runs: unset, or set by an earlier hook.
StaleClaims == [userId |-> <<"9">>, email |-> "stale@x.com", iat |-> 0, exp |-> 0]
UsersBefore == {Null, Some(StaleClaims)}

Faults == {"none", "request", "verifier"}

\* ---------------------------------------------------- process environment

\* process.env as the providers read it: each variable unset, set to the
\* empty string, or set to a value.
EnvValues(configured) == {Null, Some(""), Some(configured)}

Envs ==
  [JWT_SECRET : EnvValues(JWT_SECRET), JWT_EXPIRES_IN : EnvValues("expires-in"),
   SERVICE_TOKEN : EnvValues(SERVICE_TOKEN)]

\* JavaScript's !process.env.X: unset and '' are falsy.
unset(v) == v = Null \/ v = Some("")

\* The result of a constructor or factory call: the object built, or the
\* error thrown.
Built(obj) == [ok |-> TRUE, error |-> Null, obj |-> Some(obj)]
Threw(error) == [ok |-> FALSE, error |-> Some(error), obj |-> Null]

\* new JwtProvider()
JwtProvider_new(env) ==
  IF unset(env.JWT_SECRET)
    THEN Threw(PlainError("JWT_SECRET environment variable is required"))
  ELSE IF unset(env.JWT_EXPIRES_IN)
    THEN Threw(PlainError("JWT_EXPIRES_IN environment variable is required"))
  ELSE Built([secret |-> env.JWT_SECRET, expiresIn |-> env.JWT_EXPIRES_IN])

\* A ServiceTokenProvider constructor that throws for an unset variable only.
ServiceTokenProvider_new_undefined(env) ==
  IF env.SERVICE_TOKEN = Null
    THEN Threw(PlainError("SERVICE_TOKEN environment variable is required"))
    ELSE Built([serviceToken |-> env.SERVICE_TOKEN])

\* new ServiceTokenProvider()
ServiceTokenProvider_new(env) ==
  IF unset(env.SERVICE_TOKEN)
    THEN Threw(PlainError("SERVICE_TOKEN environment variable is required"))
    ELSE Built([serviceToken |-> env.SERVICE_TOKEN])

\* verify of a constructed ServiceTokenProvider: token === this.serviceToken.
ServiceTokenProvider_verify_of(provider, token) == Some(token) = provider.serviceToken

\* createAuthMiddleware(): the constructor's error propagates.
createAuthMiddleware(env) ==
  LET jwtProvider == JwtProvider_new(env)
  IN  IF jwtProvider.ok THEN Built([jwtProvider |-> jwtProvider.obj[1]]) ELSE jwtProvider

\* createServiceAuthMiddleware(): the constructor's error propagates.
createServiceAuthMiddleware(env) ==
  LET serviceTokenProvider == ServiceTokenProvider_new(env)
  IN  IF serviceTokenProvider.ok
        THEN Built([serviceTokenProvider |-> serviceTokenProvider.obj[1]])
        ELSE serviceTokenProvider

\* UserControllerFactory.create(db): repository, CryptoProvider, JwtProvider,
\* UserService, UserController; only the JwtProvider constructor can throw.
UserControllerFactory_create(env) ==
  LET jwtProvider == JwtProvider_new(env)
  IN  IF jwtProvider.ok
        THEN Built([userService |-> [jwtProvider |-> jwtProvider.obj[1]]])
        ELSE jwtProvider

\* ----------------------------------------------------------- DatabaseHelper

DEFAULT_MAX_RETRIES == 5

\* The error with which the k-th db.listCollections() call failed.
ConnectionError(k) == [name |-> "MongoNetworkError", attempt |-> k]

\* No verifyConnection call in flight.  attempts: listCollections calls made;
\* delays: retry timers set; outcomes: how each listCollections call settled;
\* warnings: the counts of the 'retrying... (N left)' warnings logged, in
\* order; verified: how often 'MongoDB connection verified' was logged.
IdleConn ==
  [pc |-> "idle", maxRetries |-> 0, retries |-> 0, attempts |-> 0, delays |-> 0,
   outcomes |-> <<>>, error |-> Null, warnings |-> <<>>, verified |-> 0]

\* The head of the while loop: with retries left the next listCollections
\* call is issued, with none the function falls off the loop and resolves.
verifyConnection_loop(conn) ==
  IF conn.retries > 0
    THEN [conn EXCEPT !.pc = "listCollections", !.attempts = @ + 1]
    ELSE [conn EXCEPT !.pc = "resolved"]

\* verifyConnection(db, logger, config) up to its first await.  config:
\* Null for {} (maxRetries defaults to 5) or Some(maxRetries).
verifyConnection_call(config) ==
  LET maxRetries == IF config = Null THEN DEFAULT_MAX_RETRIES ELSE config[1]
  IN  verifyConnection_loop([IdleConn EXCEPT !.maxRetries = maxRetries,
                                             !.retries = maxRetries])

\* A catch block that tests retries before counting down.
verifyConnection_attempt_late(conn, ok) ==
  LET c == [conn EXCEPT !.outcomes = Append(@, ok)]
  IN  IF ok THEN [c EXCEPT !.pc = "resolved", !.verified = @ + 1]
      ELSE IF c.retries = 0
        THEN [c EXCEPT !.pc = "rejected", !.error = Some(ConnectionError(c.attempts))]
      ELSE [c EXCEPT !.pc = "delay", !.retries = @ - 1, !.delays = @ + 1,
                     !.warnings = Append(@, c.retries - 1)]

\* A catch block that warns before it counts down.
verifyConnection_attempt_warnfirst(conn, ok) ==
  LET c == [conn EXCEPT !.outcomes = Append(@, ok)]
  IN  IF ok THEN [c EXCEPT !.pc = "resolved", !.verified = @ + 1]
      ELSE IF c.retries - 1 = 0
        THEN [c EXCEPT !.pc = "rejected", !.retries = 0,
                       !.error = Some(ConnectionError(c.attempts))]
      ELSE [c EXCEPT !.pc = "delay", !.retries = @ - 1, !.delays = @ + 1,
                     !.warnings = Append(@, c.retries)]

\* The await of listCollections().toArray() settles: log and return on
\* success; on failure count down, rethrow at zero, else warn with the count
\* left and set the retry timer.
verifyConnection_attempt(conn, ok) ==
  LET c == [conn EXCEPT !.outcomes = Append(@, ok)]
  IN  IF ok THEN [c EXCEPT !.pc = "resolved", !.verified = @ + 1]
      ELSE IF c.retries - 1 = 0
        THEN [c EXCEPT !.pc = "rejected", !.retries = 0,
                       !.error = Some(ConnectionError(c.attempts))]
      ELSE [c EXCEPT !.pc = "delay", !.retries = @ - 1, !.delays = @ + 1,
                     !.warnings = Append(@, c.retries - 1)]

\* The retry timer fires and the loop goes round.
verifyConnection_delay(conn) == verifyConnection_loop(conn)

\* ------------------------------------------------------------------ server

\* The process before server.ts has run.  made: results of constructor and
\* factory calls made outside the server's startup.
BootInit ==
  [pc |-> "start", env |-> Null, db |-> FALSE, conn |-> IdleConn, routes |-> FALSE,
   listening |-> FALSE, exit |-> Null, error |-> Null, served |-> 0, made |-> {}]

\* ------------------------------------------------------------- user.dto

\* Request texts are sequences of one-character strings.
LetterChars == {"a", "b", "c", "d", "m", "o", "x"}
DigitSet == {"1"}
AtomChars == LetterChars \cup DigitSet \cup {"_", "+", "-"}

\* s has two dots in a row.
DoubleDot(s) == \E i \in 1..(Len(s) - 1) : s[i] = "." /\ s[i + 1] = "."

\* The local part of an address: atoms and dots and quotes, not starting with
\* a dot and ending with an atom.
isLocalPart(l) ==
  /\ l # <<>>
  /\ \A i \in 1..Len(l) : l[i] \in AtomChars \cup {".", "'"}
  /\ l[1] # "." /\ l[Len(l)] \in AtomChars

\* The domain of an address: one or more labels of letters, digits and
\* hyphens that start with a letter or digit, each followed by a dot, then a
\* top-level name of two or more letters.
isDomain(d) ==
  LET dots == {i \in 1..Len(d) : d[i] = "."}
  IN  /\ dots # {}
      /\ LET last == CHOOSE i \in dots : \A k \in dots : k <= i
         IN  /\ Len(d) - last >= 2
             /\ \A i \in (last + 1)..Len(d) : d[i] \in LetterChars
             /\ \A i \in 1..last :
                  IF d[i] = "." THEN i > 1 /\ d[i - 1] # "."
                  ELSE /\ d[i] \in LetterChars \cup DigitSet \cup {"-"}
                       /\ (i = 1 \/ d[i - 1] = ".") => d[i] \in LetterChars \cup DigitSet

\* z.email(): one @ between a local part and a domain, no two dots in a row.
isEmail(s) ==
  LET ats == {i \in 1..Len(s) : s[i] = "@"}
  IN  /\ Cardinality(ats) = 1
      /\ ~DoubleDot(s)
      /\ LET at == CHOOSE i \in ats : TRUE
         IN  isLocalPart(SubSeq(s, 1, at - 1)) /\ isDomain(SubSeq(s, at + 1, Len(s)))

Issue(field, message) == [field |-> field, message |-> message]

PASSWORD_MIN == 6
PASSWORD_MAX == 100

\* The email checks where the first failing one ends the run.
emailIssues_abort(email) ==
  IF ~isEmail(email) THEN <<Issue("email", "Invalid email format")>>
  ELSE IF Len(email) < 1 THEN <<Issue("email", "Email is required")>>
  ELSE <<>>

\* The issues of the email field, in the order of its checks.
emailIssues(email) ==
  (IF isEmail(email) THEN <<>> ELSE <<Issue("email", "Invalid email format")>>)
  \o (IF Len(email) >= 1 THEN <<>> ELSE <<Issue("email", "Email is required")>>)

\* The issues of the password field.
passwordIssues(password) ==
  IF Len(password) < PASSWORD_MIN
    THEN <<Issue("password", "Password must be at least 6 characters long")>>
  ELSE IF Len(password) > PASSWORD_MAX
    THEN <<Issue("password", "Password must not exceed 100 characters")>>
  ELSE <<>>

\* A number as a field value.
NumberValue(n) == [type |-> "number", vals |-> <<n>>]

\* z.email({message}) on a field value: a value that is no string raises the
\* type issue under the schema's message and none of the checks runs.
emailField(value) ==
  IF value.type # "string"
    THEN <<Issue("email", "Invalid email format")>>
    ELSE emailIssues(value.vals[1])

\* z.string() on a field value.
passwordField(value) ==
  IF value.type = "undefined"
    THEN <<Issue("password", "Invalid input: expected string, received undefined")>>
  ELSE IF value.type # "string"
    THEN <<Issue("password", "Invalid input: expected string, received number")>>
  ELSE passwordIssues(value.vals[1])

\* createUserSchema.safeParse(data): the issues of email, then of password.
createUserSchema_safeParse(data) ==
  LET issues == emailField(data.email) \o passwordField(data.password)
  IN  [success |-> issues = <<>>, issues |-> issues]

\* ------------------------------------------------------- User, ErrorHandler

\* User.create(data): the user, or a plain Error with the first issue's message.
User_create(data) ==
  LET validation == createUserSchema_safeParse([email |-> StringValue(data.email),
                                                password |-> StringValue(data.password)])
  IN  IF ~validation.success
        THEN Threw(PlainError(validation.issues[1].message))
        ELSE Built([email |-> data.email, password |-> data.password])

\* UserValidator.validateCreateUser(body): the parsed data, or a
\* ValidationError whose details hold one entry for each issue.
UserValidator_validateCreateUser(body) ==
  LET result == createUserSchema_safeParse(body)
      details == [i \in 1..Len(result.issues) |->
                    [field |-> result.issues[i].field, message |-> result.issues[i].message]]
  IN  IF ~result.success
        THEN Threw(ValidationError("Validation failed", details))
        ELSE Built([email |-> body.email.vals[1], password |-> body.password.vals[1]])

\* A reply: its status and the fields of its body that are present.
Reply(status, error, code, details, id, email) ==
  [status |-> status, error |-> error, code |-> code, details |-> details,
   id |-> id, email |-> email]

\* The classes whose instances are AppErrors.
AppErrorClasses ==
  {"AppError", "ValidationError", "ConflictError", "NotFoundError", "BadRequestError"}

\* A value handed to a catch clause: the class that constructed it ("Object"
\* for an object literal, "String", "null" and "undefined" for the values
\* that are no objects) and its own fields.
Raised(proto, own) == [proto |-> proto, own |-> own]

\* throw of an error built by one of the classes: its name is the name of
\* its constructor.
raise(error) == Raised(error.name, error)

\* error instanceof AppError, judged by the fields the value carries.
isAppError_duck(thrown) == "statusCode" \in DOMAIN thrown.own

\* error instanceof AppError: the value was constructed by AppError or by one
\* of its subclasses.
isAppError(thrown) == thrown.proto \in AppErrorClasses

\* ErrorHandler.handle(error, request, reply): the reply, and the values
\* written to the request log with 'Unexpected error'.
ErrorHandler_handle(thrown) ==
  IF isAppError(thrown)
    THEN LET error == thrown.own
         IN  [reply |-> Reply(error.statusCode, Some(error.message),
                              IF error.code # "" THEN Some(error.code) ELSE Null,
                              IF thrown.proto = "ValidationError" /\ "details" \in DOMAIN error
                                THEN Some(error.details) ELSE Null,
                              Null, Null),
              logs |-> <<>>]
    ELSE [reply |-> Reply(500, Some("Internal server error"), Null, Null, Null, Null),
          logs |-> <<thrown>>]

\* ----------------------------------------------------------- UserController

\* The two UserService sources: user.service.ts returns the insert result
\* from createUser, the other one awaits the insert and returns undefined.
ServiceBuilds == {"returns insert result", "returns undefined"}

\* What createUser's promise resolves to in the build.
createUser_returned(slot, build) ==
  IF build = "returns insert result" THEN slot.result ELSE Null

TypeError(message) == [name |-> "TypeError", message |-> message]

\* No request at a slot's boundary.  before: the store when the request came
\* in; validated: what a call of validateCreateUser ended with.
IdleHttp ==
  [route |-> "none", body |-> Null, reply |-> Null, logs |-> <<>>, before |-> <<>>,
   validated |-> Null]

\* UserController.createUser up to its first await: User.create(request.body),
\* then the call of userService.createUser; an invalid body is answered by
\* ErrorHandler at once.
UserController_createUser_call(body, coll) ==
  LET user == User_create(body)
      at == [IdleHttp EXCEPT !.route = "create", !.body = Some(body), !.before = coll]
  IN  IF ~user.ok
        THEN [http |-> [at EXCEPT !.reply = Some(ErrorHandler_handle(raise(user.error[1])).reply),
                                  !.logs = ErrorHandler_handle(raise(user.error[1])).logs],
              slot |-> IdleSlot]
        ELSE [http |-> at, slot |-> createUser_call(user.obj[1].email, user.obj[1].password)]

\* UserController.createUser resumed when userService.createUser settled:
\* 201 with result.insertedId?.toString() and the email; an exception, the
\* one of reading insertedId of undefined included, goes to ErrorHandler.
UserController_createUser_reply(at, slot, build) ==
  LET result == createUser_returned(slot, build)
      error == IF slot.error # Null THEN slot.error[1]
               ELSE TypeError("Cannot read properties of undefined (reading 'insertedId')")
  IN  IF slot.error # Null \/ result = Null
        THEN [at EXCEPT !.reply = Some(ErrorHandler_handle(raise(error)).reply),
                        !.logs = ErrorHandler_handle(raise(error)).logs]
        ELSE [at EXCEPT !.reply = Some(Reply(201, Null, Null, Null,
                                             Some(toString(result[1].insertedId)),
                                             Some(slot.email)))]

\* The 200 reply of a login: the body is what authenticateUser returned.
LoginReply(result) ==
  [status |-> 200, error |-> Null, code |-> Null, details |-> Null, id |-> Null,
   email |-> Null, user |-> Some(result.user), token |-> Some(result.token)]

\* UserController.authenticateUser up to its await: the call of
\* userService.authenticateUser with the body's email and password.
UserController_authenticateUser_call(body, coll) ==
  [http |-> [IdleHttp EXCEPT !.route = "authenticate", !.body = Some(body),
                             !.before = coll],
   slot |-> authenticateUser_call(body.email, body.password)]

\* UserController.authenticateUser resumed when userService.authenticateUser
\* settled: 200 with the result as the body; an exception goes to
\* ErrorHandler.
UserController_authenticateUser_reply(at, slot) ==
  IF slot.error # Null
    THEN [at EXCEPT !.reply = Some(ErrorHandler_handle(raise(slot.error[1])).reply),
                    !.logs = ErrorHandler_handle(raise(slot.error[1])).logs]
    ELSE [at EXCEPT !.reply = Some(LoginReply(slot.result[1]))]

\* The boundary before a build is chosen.
HttpInit == [service |-> Null, at |-> [r \in Slots |-> IdleHttp]]

\* ------------------------------------------------------------------ state

Init ==
  /\ store = <<>>
  /\ now = 0
  /\ req = [r \in Slots |-> IdleSlot]
  /\ held = Null
  /\ gate = Null
  /\ boot = BootInit
  /\ http = HttpInit

InFlight(r) == req[r].pc \notin {"idle", "done"}

\* Every earlier call has completed and its response has been delivered.
Quiet == \A r \in Slots : req[r].pc = "idle"

\* Accounts that the calls in flight may still add to those stored.
Pending == Cardinality({r \in Slots : req[r].op = "createUser" /\ InFlight(r)})

\* No gate handler is in the middle of its turn of the event loop.
Free == gate = Null

\* ---------------------------------------------------------------- actions

CreateUserCall(r, email, password) ==
  /\ Free
  /\ req[r].pc = "idle"
  /\ Len(store) + Pending < MaxUsers
  /\ req' = [req EXCEPT ![r] = createUser_call(email, password)]
  /\ UNCHANGED <<store, now, held, gate, boot, http>>

CreateUserFind(r, fail) ==
  /\ Free
  /\ req[r].op = "createUser" /\ req[r].pc = "find"
  /\ req' = [req EXCEPT ![r] = createUser_find(req[r], store, fail)]
  /\ UNCHANGED <<store, now, held, gate, boot, http>>

CreateUserHash(r, salt, fail) ==
  /\ Free
  /\ req[r].op = "createUser" /\ req[r].pc = "hash"
  /\ req' = [req EXCEPT ![r] = createUser_hash(req[r], salt, fail)]
  /\ UNCHANGED <<store, now, held, gate, boot, http>>

CreateUserInsert(r, fail) ==
  /\ Free
  /\ req[r].op = "createUser" /\ req[r].pc = "insert"
  /\ LET done == createUser_insert(req[r], store, fail)
     IN  /\ req' = [req EXCEPT ![r] = done.slot]
         /\ store' = done.coll
  /\ UNCHANGED <<now, held, gate, boot, http>>

AuthenticateUserCall(r, email, password) ==
  /\ Free
  /\ req[r].pc = "idle"
  /\ req' = [req EXCEPT ![r] = authenticateUser_call(email, password)]
  /\ UNCHANGED <<store, now, held, gate, boot, http>>

AuthenticateUserFind(r, fail) ==
  /\ Free
  /\ req[r].op = "authenticateUser" /\ req[r].pc = "find"
  /\ req' = [req EXCEPT ![r] = authenticateUser_find(req[r], store, fail)]
  /\ UNCHANGED <<store, now, held, gate, boot, http>>

AuthenticateUserCompare(r, fail) ==
  /\ Free
  /\ req[r].op = "authenticateUser" /\ req[r].pc = "compare"
  /\ req' = [req EXCEPT ![r] = authenticateUser_compare(req[r], now, fail)]
  /\ UNCHANGED <<store, now, held, gate, boot, http>>

\* The client keeps the token of a login response.
HoldToken(r) ==
  /\ Free
  /\ req[r].op = "authenticateUser" /\ req[r].pc = "done" /\ req[r].result # Null
  /\ held # Some(req[r].result[1].token)
  /\ held' = Some(req[r].result[1].token)
  /\ UNCHANGED <<store, now, req, gate, boot, http>>

\* The response is delivered and the slot serves the next request.
Respond(r) ==
  /\ Free
  /\ req[r].pc = "done"
  /\ req' = [req EXCEPT ![r] = IdleSlot]
  /\ UNCHANGED <<store, now, held, gate, boot, http>>

Tick ==
  /\ Free
  /\ now < MaxTime
  /\ now' = now + 1
  /\ UNCHANGED <<store, req, held, gate, boot, http>>

\* A gate backed by a session store that keeps the latest issued token only:
\* a token is refused once a later login has returned another one.
UserGate_session(authorization, userBefore, fault) ==
  /\ Free
  /\ LET out == AuthMiddleware_authenticate(authorization, userBefore, now, fault)
         superseded ==
           \E r \in Slots :
             /\ req[r].op = "authenticateUser" /\ req[r].result # Null
             /\ out.verifyCalls # <<Compact(req[r].result[1].token)>>
     IN  gate' = Some([kind |-> "user", header |-> authorization,
                       userBefore |-> userBefore, fault |-> fault, at |-> now,
                       out |-> IF out.replies = <<>> /\ superseded
                                 THEN Outcome(<<Unauthorized("Invalid or expired token")>>,
                                              userBefore, out.verifyCalls, "invalid-token")
                                 ELSE out])
  /\ UNCHANGED <<store, now, req, held, boot, http>>

\* A request passes through AuthMiddleware.authenticate.  The handler has no
\* await: it runs to completion within one turn of the event loop.
UserGate(authorization, userBefore, fault) ==
  /\ Free
  /\ gate' = Some([kind |-> "user", header |-> authorization, userBefore |-> userBefore,
                   fault |-> fault, at |-> now,
                   out |-> AuthMiddleware_authenticate(authorization, userBefore, now, fault)])
  /\ UNCHANGED <<store, now, req, held, boot, http>>

\* A request passes through ServiceAuthMiddleware.authenticate.
ServiceGate(xToken, userBefore, fault) ==
  /\ Free
  /\ gate' = Some([kind |-> "service", header |-> xToken, userBefore |-> userBefore,
                   fault |-> fault, at |-> now,
                   out |-> ServiceAuthMiddleware_authenticate(xToken, userBefore, fault)])
  /\ UNCHANGED <<store, now, req, held, boot, http>>

\* The gate's handler has returned; the event loop takes its next turn.
GateReturn ==
  /\ gate # Null
  /\ gate' = Null
  /\ UNCHANGED <<store, now, req, held, boot, http>>

\* ------------------------------------------------------------ server.ts

Rest == <<store, now, req, held, gate, http>>

\* The process starts: dotenv has loaded the environment and the mongodb
\* plugin is registered (db: whether fastify.mongo.db will be defined).
LoadEnv(env, db) ==
  /\ boot.pc = "start"
  /\ boot' = [boot EXCEPT !.pc = "configured", !.env = Some(env), !.db = db]
  /\ UNCHANGED Rest

\* fastify.listen(...): the server is readied, which runs the onReady hook.
Listen ==
  /\ boot.pc = "configured" /\ boot.conn.pc = "idle"
  /\ boot' = [boot EXCEPT !.pc = "onReady"]
  /\ UNCHANGED Rest

\* The onReady hook up to its first await: the db test, then the call of
\* DatabaseHelper.verifyConnection with the default config.
OnReadyVerify ==
  /\ boot.pc = "onReady"
  /\ boot' = IF ~boot.db
               THEN [boot EXCEPT !.pc = "hookFailed",
                                 !.error = Some(PlainError("MongoDB connection failed - db is undefined"))]
               ELSE [boot EXCEPT !.pc = "verifying", !.conn = verifyConnection_call(Null)]
  /\ UNCHANGED Rest

\* A direct call of DatabaseHelper.verifyConnection with a config.
VerifyConnectionCall(config) ==
  /\ boot.pc = "configured" /\ boot.conn.pc = "idle"
  /\ boot' = [boot EXCEPT !.conn = verifyConnection_call(config)]
  /\ UNCHANGED Rest

\* db.listCollections().toArray() settles.
VerifyAttempt(ok) ==
  /\ boot.conn.pc = "listCollections"
  /\ boot' = [boot EXCEPT !.conn = verifyConnection_attempt(boot.conn, ok)]
  /\ UNCHANGED Rest

\* The retry timer fires.
VerifyDelay ==
  /\ boot.conn.pc = "delay"
  /\ boot' = [boot EXCEPT !.conn = verifyConnection_delay(boot.conn)]
  /\ UNCHANGED Rest

\* A direct call of verifyConnection has settled and its caller goes on.
VerifyReturn ==
  /\ boot.pc = "configured" /\ boot.conn.pc \in {"resolved", "rejected"}
  /\ boot' = [boot EXCEPT !.conn = IdleConn]
  /\ UNCHANGED Rest

\* The onReady hook after verifyConnection resolved: UserControllerFactory
\* .create, then the registration of userRoutes under /users; an exception is
\* logged and rethrown.
OnReadyWire ==
  /\ boot.pc = "verifying" /\ boot.conn.pc = "resolved"
  /\ LET userController == UserControllerFactory_create(boot.env[1])
     IN  boot' = IF userController.ok
                   THEN [boot EXCEPT !.pc = "hookDone", !.routes = TRUE]
                   ELSE [boot EXCEPT !.pc = "hookFailed", !.error = userController.error]
  /\ UNCHANGED Rest

\* The onReady hook after verifyConnection rejected: logged and rethrown.
OnReadyCatch ==
  /\ boot.pc = "verifying" /\ boot.conn.pc = "rejected"
  /\ boot' = [boot EXCEPT !.pc = "hookFailed", !.error = boot.conn.error]
  /\ UNCHANGED Rest

\* The callback of fastify.listen: process.exit(1) on an error, else the
\* server is listening.
ListenCallback ==
  /\ boot.pc \in {"hookFailed", "hookDone"}
  /\ boot' = IF boot.pc = "hookFailed"
               THEN [boot EXCEPT !.pc = "exited", !.exit = Some(1)]
               ELSE [boot EXCEPT !.pc = "listening", !.listening = TRUE]
  /\ UNCHANGED Rest

\* The listening server routes a request to a registered handler.
Serve ==
  /\ boot.pc = "listening" /\ boot.routes /\ boot.served < MaxServed
  /\ boot' = [boot EXCEPT !.served = @ + 1]
  /\ UNCHANGED Rest

\* A direct constructor or factory call has not been made yet / is recorded
\* with its result.
NotMade(call) == boot.pc = "configured" /\ \A m \in boot.made : m.call # call
Record(call, result) == [boot EXCEPT !.made = @ \cup {[call |-> call, result |-> result]}]

NewJwtProvider ==
  /\ NotMade("JwtProvider")
  /\ boot' = Record("JwtProvider", JwtProvider_new(boot.env[1]))
  /\ UNCHANGED Rest

NewServiceTokenProvider ==
  /\ NotMade("ServiceTokenProvider")
  /\ boot' = Record("ServiceTokenProvider", ServiceTokenProvider_new(boot.env[1]))
  /\ UNCHANGED Rest

CreateAuthMiddleware ==
  /\ NotMade("createAuthMiddleware")
  /\ boot' = Record("createAuthMiddleware", createAuthMiddleware(boot.env[1]))
  /\ UNCHANGED Rest

CreateServiceAuthMiddleware ==
  /\ NotMade("createServiceAuthMiddleware")
  /\ boot' = Record("createServiceAuthMiddleware", createServiceAuthMiddleware(boot.env[1]))
  /\ UNCHANGED Rest

\* ------------------------------------------------------- /users/create

\* Request bodies: addresses that are well formed and that are not, passwords
\* of lengths around both limits.
Text(n) == [i \in 1..n |-> "x"]

BodyEmails ==
  {<<"a", "@", "b", ".", "c", "o">>, <<"c", "@", "d", ".", "c", "o">>,
   <<"a", "b", ".", "c", "o">>, <<"a", "@", "b">>, <<"a", "@", "b", ".", "c">>,
   <<"a", ".", ".", "b", "@", "c", ".", "c", "o">>, <<>>}

BodyPasswords ==
  {Text(PASSWORD_MIN - 1), Text(PASSWORD_MIN), Text(PASSWORD_MAX), Text(PASSWORD_MAX + 1)}

Bodies == [email : BodyEmails, password : BodyPasswords]

\* No request is at the boundary.
NoRequest == \A r \in Slots : http.at[r].route = "none"

\* The service is built from one of its two sources.
Build(service) ==
  /\ http.service = Null
  /\ http' = [http EXCEPT !.service = Some(service)]
  /\ UNCHANGED <<store, now, req, held, gate, boot>>

\* POST /users/create arrives while no other request is being served.
PostCreate(r, body) ==
  /\ Free /\ http.service # Null
  /\ Quiet /\ NoRequest
  /\ Len(store) < MaxUsers
  /\ LET call == UserController_createUser_call(body, store)
     IN  /\ http' = [http EXCEPT !.at[r] = call.http]
         /\ req' = [req EXCEPT ![r] = call.slot]
  /\ UNCHANGED <<store, now, held, gate, boot>>

\* userService.createUser has settled and the controller replies.
CreateReply(r) ==
  /\ Free
  /\ http.at[r].route = "create" /\ http.at[r].reply = Null
  /\ req[r].op = "createUser" /\ req[r].pc = "done"
  /\ http' = [http EXCEPT !.at[r] =
                UserController_createUser_reply(http.at[r], req[r], http.service[1])]
  /\ UNCHANGED <<store, now, req, held, gate, boot>>

\* The reply is sent, or the validator has returned, and the slot serves the
\* next request.
Deliver(r) ==
  /\ Free
  /\ http.at[r].reply # Null \/ http.at[r].validated # Null
  /\ http' = [http EXCEPT !.at[r] = IdleHttp]
  /\ req' = [req EXCEPT ![r] = IdleSlot]
  /\ UNCHANGED <<store, now, held, gate, boot>>

\* ------------------------------------------------------- /users/authenticate

\* Login bodies: the well-formed addresses with passwords of both limits.
LoginBodies ==
  [email : {<<"a", "@", "b", ".", "c", "o">>, <<"c", "@", "d", ".", "c", "o">>},
   password : {Text(PASSWORD_MIN), Text(PASSWORD_MAX)}]

\* POST /users/authenticate arrives while no other request is being served.
\* The route is served by the service that issues tokens, the one the
\* controller factory constructs.
PostAuthenticate(r, body) ==
  /\ Free /\ http.service = Some("returns undefined")
  /\ Quiet /\ NoRequest
  /\ LET call == UserController_authenticateUser_call(body, store)
     IN  /\ http' = [http EXCEPT !.at[r] = call.http]
         /\ req' = [req EXCEPT ![r] = call.slot]
  /\ UNCHANGED <<store, now, held, gate, boot>>

\* userService.authenticateUser has settled and the controller replies.
AuthenticateReply(r) ==
  /\ Free
  /\ http.at[r].route = "authenticate" /\ http.at[r].reply = Null
  /\ req[r].op = "authenticateUser" /\ req[r].pc = "done"
  /\ http' = [http EXCEPT !.at[r] =
                UserController_authenticateUser_reply(http.at[r], req[r])]
  /\ UNCHANGED <<store, now, req, held, gate, boot>>

\* ------------------------------------------------------- ErrorHandler calls

\* Values a handler can catch: instances of AppError and of its subclasses,
\* instances of Error, a string, null, undefined, an object literal, and an
\* object literal that carries the fields of a ConflictError.
AppErrorValues ==
  {raise(AppError("AppError", "Custom error", 418, "CUSTOM")),
   raise(AppError("AppError", "No code", 500, "")),
   raise(ValidationError("Validation failed", <<Issue("email", "Invalid email format")>>)),
   raise(ConflictError("User already exists")),
   raise(NotFoundError("User not found")),
   raise(BadRequestError("Invalid credentials"))}

OtherValues ==
  {raise(PlainError("Unexpected error")),
   raise(PlainError("connect ECONNREFUSED mongodb://root:hunter2@db:27017")),
   raise(TypeError("Cannot read properties of undefined (reading 'insertedId')")),
   Raised("String", [value |-> "String error"]),
   Raised("null", [value |-> "null"]),
   Raised("undefined", [value |-> "undefined"]),
   Raised("Object", [custom |-> "error object"]),
   Raised("Object", ConflictError("User already exists"))}

ThrownValues == AppErrorValues \cup OtherValues

\* A handler caught a value and hands it to ErrorHandler.handle.
Handle(r, thrown) ==
  /\ Free /\ http.service # Null
  /\ Quiet /\ NoRequest
  /\ http' = [http EXCEPT !.at[r] =
                [IdleHttp EXCEPT !.route = "handle", !.body = Some(thrown),
                                 !.reply = Some(ErrorHandler_handle(thrown).reply),
                                 !.logs = ErrorHandler_handle(thrown).logs]]
  /\ UNCHANGED <<store, now, req, held, gate, boot>>

\* ------------------------------------------------------- UserValidator calls

\* Bodies of unknown type: each field a string, a number or missing.
UnknownBodies ==
  [email : {Undefined, NumberValue(123)} \cup {StringValue(e) : e \in BodyEmails},
   password : {Undefined, NumberValue(123456)} \cup {StringValue(p) : p \in BodyPasswords}]

\* validateCreateUser is called with a body.
Validate(r, body) ==
  /\ Free /\ http.service # Null
  /\ Quiet /\ NoRequest
  /\ http' = [http EXCEPT !.at[r] =
                [IdleHttp EXCEPT !.route = "validate", !.body = Some(body),
                                 !.validated = Some(UserValidator_validateCreateUser(body))]]
  /\ UNCHANGED <<store, now, req, held, gate, boot>>

\* ---------------------------------------------------------- specifications

\* The service under concurrent requests: calls interleave at every await.
Service ==
  \E r \in Slots :
    \/ \E email \in Emails, password \in Passwords : CreateUserCall(r, email, password)
    \/ \E fail \in BOOLEAN : CreateUserFind(r, fail)
    \/ \E salt \in Salts, fail \in BOOLEAN : CreateUserHash(r, salt, fail)
    \/ \E fail \in BOOLEAN : CreateUserInsert(r, fail)
    \/ \E email \in Emails, password \in Passwords : AuthenticateUserCall(r, email, password)
    \/ \E fail \in BOOLEAN : AuthenticateUserFind(r, fail)
    \/ \E fail \in BOOLEAN : AuthenticateUserCompare(r, fail)
    \/ Respond(r)

Next == Service \/ Tick

Spec == Init /\ [][Next]_vars

\* The service when no call starts before the previous one has completed.
ServiceSeq ==
  \E r \in Slots :
    \/ \E email \in Emails, password \in Passwords :
         Quiet /\ CreateUserCall(r, email, password)
    \/ \E fail \in BOOLEAN : CreateUserFind(r, fail)
    \/ \E salt \in Salts, fail \in BOOLEAN : CreateUserHash(r, salt, fail)
    \/ \E fail \in BOOLEAN : CreateUserInsert(r, fail)
    \/ \E email \in Emails, password \in Passwords :
         Quiet /\ AuthenticateUserCall(r, email, password)
    \/ \E fail \in BOOLEAN : AuthenticateUserFind(r, fail)
    \/ \E fail \in BOOLEAN : AuthenticateUserCompare(r, fail)
    \/ Respond(r)

NextSeq == ServiceSeq \/ Tick

SpecSeq == Init /\ [][NextSeq]_vars

\* The gates, facing clients of one account that registers, logs in as time
\* passes and keeps the tokens it is given.
Client ==
  \E r \in Slots :
    \/ Quiet /\ CreateUserCall(r, "a@b.com", "secret1")
    \/ CreateUserFind(r, FALSE)
    \/ CreateUserHash(r, "s1", FALSE)
    \/ CreateUserInsert(r, FALSE)
    \/ Quiet /\ AuthenticateUserCall(r, "a@b.com", "secret1")
    \/ AuthenticateUserFind(r, FALSE)
    \/ AuthenticateUserCompare(r, FALSE)
    \/ HoldToken(r)
    \/ Respond(r)

Gates ==
  \/ \E authorization \in AuthorizationHeaders(held, now), userBefore \in UsersBefore,
        fault \in Faults : UserGate(authorization, userBefore, fault)
  \/ \E xToken \in XTokenHeaders, userBefore \in UsersBefore, fault \in Faults :
        ServiceGate(xToken, userBefore, fault)

NextGate == Client \/ Tick \/ Gates \/ GateReturn

SpecGate == Init /\ [][NextGate]_vars

\* The service one call at a time, and the gates run between its steps.
NextStore == ServiceSeq \/ Gates \/ GateReturn

SpecStore == Init /\ [][NextStore]_vars

\* The process from its start: the server's startup, and direct calls of the
\* providers, the factories and DatabaseHelper before it.
RetryConfigs == {Null} \cup {Some(n) : n \in -1..MaxRetries}

NextBoot ==
  \/ \E env \in Envs, db \in BOOLEAN : LoadEnv(env, db)
  \/ Listen
  \/ OnReadyVerify
  \/ \E config \in RetryConfigs : VerifyConnectionCall(config)
  \/ \E ok \in BOOLEAN : VerifyAttempt(ok)
  \/ VerifyDelay
  \/ VerifyReturn
  \/ OnReadyWire
  \/ OnReadyCatch
  \/ ListenCallback
  \/ Serve
  \/ NewJwtProvider
  \/ NewServiceTokenProvider
  \/ CreateAuthMiddleware
  \/ CreateServiceAuthMiddleware

SpecBoot == Init /\ [][NextBoot]_vars

\* The same, where a pending listCollections call settles and a set retry
\* timer fires.
SpecBootFair ==
  /\ SpecBoot
  /\ WF_vars(\E ok \in BOOLEAN : VerifyAttempt(ok))
  /\ WF_vars(VerifyDelay)

\* The HTTP boundary of /users, one request at a time.
NextHttp ==
  \/ \E service \in ServiceBuilds : Build(service)
  \/ \E r \in Slots :
       \/ \E body \in Bodies : PostCreate(r, body)
       \/ \E fail \in BOOLEAN : CreateUserFind(r, fail)
       \/ \E salt \in Salts, fail \in BOOLEAN : CreateUserHash(r, salt, fail)
       \/ \E fail \in BOOLEAN : CreateUserInsert(r, fail)
       \/ CreateReply(r)
       \/ \E body \in LoginBodies : PostAuthenticate(r, body)
       \/ \E fail \in BOOLEAN : AuthenticateUserFind(r, fail)
       \/ \E fail \in BOOLEAN : AuthenticateUserCompare(r, fail)
       \/ AuthenticateReply(r)
       \/ \E thrown \in ThrownValues : Handle(r, thrown)
       \/ \E body \in UnknownBodies : Validate(r, body)
       \/ Deliver(r)

SpecHttp == Init /\ [][NextHttp]_vars

\* ------------------------------------------------------------------ claims

\* The positions in the store of the accounts with this email.
WithEmail(email) == {i \in 1..Len(store) : store[i].email = email}

CreateDone(r) == req[r].op = "createUser" /\ req[r].pc = "done"

LoginDone(r) == req[r].op = "authenticateUser" /\ req[r].pc = "done"

\* C1: in every reachable state no two persisted accounts have the same
\* email, under every interleaving of concurrent createUser requests.
C1_EmailUnique ==
  \A i, j \in 1..Len(store) : i # j => store[i].email # store[j].email

\* C2: when createUser calls do not overlap, a completed createUser either
\* succeeded, having persisted the one account with its email, or failed with
\* ConflictError (409, CONFLICT_ERROR) because another account already had the
\* email, having persisted nothing, or failed on an exception of the store or
\* the hasher, having persisted nothing; no email is ever stored twice, and a
\* call that finds its email taken never reaches the hasher.
C2_RegisterOnce ==
  /\ \A email \in Emails : Cardinality(WithEmail(email)) <= 1
  /\ \A r \in Slots : CreateDone(r) =>
       LET slot == req[r]
           taken == \E i \in WithEmail(slot.email) : store[i]._id # slot.inserted
       IN  /\ slot.error = Null =>
                /\ slot.inserted # 0
                /\ WithEmail(slot.email) = {slot.inserted}
                /\ store[slot.inserted]._id = slot.inserted
           /\ slot.error # Null => slot.inserted = 0
           /\ taken =>
                /\ "hashPassword" \notin slot.calls /\ "create" \notin slot.calls
                /\ \/ slot.error = Some([name |-> "ConflictError",
                                         message |-> "There is already a user with this email.",
                                         statusCode |-> 409, code |-> "CONFLICT_ERROR"])
                   \/ slot.error = Some(PlainError("findOne failed"))
           /\ (~taken /\ slot.error # Null) => slot.error[1].name = "Error"

\* C2 witness: a second createUser on a registered email has failed with
\* ConflictError while the first account is the only one with that email.
C2_Witness ==
  \E r \in Slots :
    /\ CreateDone(r)
    /\ req[r].error # Null /\ req[r].error[1].name = "ConflictError"
    /\ Cardinality(WithEmail(req[r].email)) = 1

\* The stored accounts that the credentials of a login request are those of.
Matching(slot) ==
  {i \in 1..Len(store) :
     /\ store[i].email = slot.email
     /\ store[i].password.digest = <<slot.password, store[i].password.salt>>}

\* C3: authenticateUser has called sign, or holds a result, only if the lookup
\* returned a stored account with the given email and the given password
\* matches that account's hash; a login that ended in an error (account
\* absent, mismatch, exception) never called sign and returns no token.
C3_TokenOnlyOnMatch ==
  \A r \in Slots : req[r].op = "authenticateUser" =>
    LET slot == req[r]
    IN  /\ ("sign" \in slot.calls \/ slot.result # Null) =>
             /\ slot.pc = "done" /\ slot.error = Null
             /\ "sign" \in slot.calls /\ slot.result # Null
             /\ slot.existingUser # Null
             /\ slot.existingUser[1].email = slot.email
             /\ \E i \in Matching(slot) : store[i] = slot.existingUser[1]
             /\ slot.result[1].user = slot.existingUser[1]
        /\ (slot.pc = "done" /\ slot.error # Null) =>
             "sign" \notin slot.calls /\ slot.result = Null

\* C3 witness: a login has returned {user, token}.
C3_Witness ==
  \E r \in Slots : LoginDone(r) /\ req[r].result # Null /\ "sign" \in req[r].calls

\* C4: a login for an email that no account has fails with NotFoundError
\* (404, NOT_FOUND_ERROR) without calling comparePassword (unless the lookup
\* itself threw); a login that found the account and whose password does not
\* match the stored hash fails with BadRequestError (400, BAD_REQUEST_ERROR,
\* 'Invalid email or password.') unless the comparison itself threw.
C4_FirstFailingStep ==
  \A r \in Slots : LoginDone(r) =>
    LET slot == req[r]
        notFound == Some([name |-> "NotFoundError", message |-> "User not found.",
                          statusCode |-> 404, code |-> "NOT_FOUND_ERROR"])
        badRequest == Some([name |-> "BadRequestError",
                            message |-> "Invalid email or password.",
                            statusCode |-> 400, code |-> "BAD_REQUEST_ERROR"])
    IN  /\ WithEmail(slot.email) = {} =>
             /\ slot.error \in {notFound, Some(PlainError("findOne failed"))}
             /\ "comparePassword" \notin slot.calls
        /\ slot.error = notFound =>
             slot.existingUser = Null /\ "comparePassword" \notin slot.calls
        /\ (slot.existingUser # Null
              /\ slot.existingUser[1].password.digest
                   # <<slot.password, slot.existingUser[1].password.salt>>) =>
             /\ slot.error \in {badRequest, Some(PlainError("bcrypt compare failed"))}
             /\ "comparePassword" \in slot.calls
        /\ slot.error = badRequest =>
             /\ slot.existingUser # Null
             /\ slot.existingUser[1].password.digest
                  # <<slot.password, slot.existingUser[1].password.salt>>

\* C4 witness: one login has failed with NotFoundError and another, for a
\* registered email, with BadRequestError.
C4_Witness ==
  \E r, q \in Slots :
    /\ LoginDone(r) /\ req[r].error # Null /\ req[r].error[1].name = "NotFoundError"
    /\ LoginDone(q) /\ req[q].error # Null /\ req[q].error[1].name = "BadRequestError"

\* C5: for every account stored when a login with its email and its password
\* looked it up, the login returns a token that verify accepts at every time before the expiry, and
\* the claims recovered carry that account's identifier and email.
C5_LoginRoundTrip ==
  \A r \in Slots : LoginDone(r) =>
    \A i \in Matching(req[r]) : i <= req[r].seen =>
      /\ req[r].error # Null => req[r].error[1].name = "Error"
      /\ req[r].error = Null =>
           \A t \in now..MaxTime : t < req[r].result[1].token.claims.exp =>
             LET decoded == verify(Compact(req[r].result[1].token), t, FALSE)
             IN  /\ decoded.ok
                 /\ decoded.decoded[1].userId = toString(store[i]._id)
                 /\ decoded.decoded[1].email = store[i].email

\* ------------------------------------------------------------ gate claims

UserGateRan == gate # Null /\ gate[1].kind = "user"

ServiceGateRan == gate # Null /\ gate[1].kind = "service"

\* The gate returned without sending a reply.
Admitted == gate[1].out.replies = <<>>

\* The spellings of the scheme, among those presented, that are Bearer up to case.
BearerSpellings ==
  {Str(<<"B", "e", "a", "r", "e", "r">>), Str(<<"b", "e", "a", "r", "e", "r">>),
   Str(<<"B", "E", "A", "R", "E", "R">>)}

\* The spaces of a header string, and the pieces before and after its first space.
Spaces(h) == {i \in 1..Len(h) : h[i] = Ch(" ")}
FirstSpace(h) == CHOOSE i \in Spaces(h) : \A k \in Spaces(h) : i <= k
Before(h) == SubSeq(h, 1, FirstSpace(h) - 1)
After(h) == SubSeq(h, FirstSpace(h) + 1, Len(h))

\* The presented token was issued by a login (the client holds it), carries
\* the signature of the configured secret over its claims, and had not
\* expired when the gate ran.
ValidToken(token) ==
  /\ held # Null /\ token = Compact(held[1])
  /\ held[1].sig = [key |-> "jwt-secret", msg |-> held[1].claims]
  /\ gate[1].at < held[1].claims.exp

\* C6: the user-auth gate admits a request only if the Authorization header is
\* present, has exactly two space-separated parts, the first is Bearer up to
\* case and the second is a token that verify accepted: signed with the
\* configured secret and not expired.
C6_AdmitsOnlyBearerToken ==
  (UserGateRan /\ Admitted) =>
    LET g == gate[1]
    IN  /\ g.header # Null
        /\ Cardinality(Spaces(g.header[1])) = 1
        /\ Before(g.header[1]) \in BearerSpellings
        /\ ValidToken(After(g.header[1]))
        /\ g.out.verifyCalls = <<After(g.header[1])>>
        /\ g.fault = "none"

\* C6 witness: a request with a lower-case scheme and an issued, unexpired
\* token has been admitted after the clock has advanced.
C6_Witness ==
  /\ UserGateRan /\ Admitted
  /\ Before(gate[1].header[1]) = Str(<<"b", "e", "a", "r", "e", "r">>)
  /\ gate[1].at > 0

Replied(status, error, message) ==
  gate[1].out.replies = <<[status |-> status, error |-> error, message |-> message]>>

\* The user-auth gate's reply for each header, where missing says which
\* headers count as carrying no token.
FirstFailingCheck(missing) ==
  (UserGateRan /\ gate[1].fault # "request") =>
    LET g == gate[1]
        pieces == Cardinality(Spaces(g.header[1])) + 1
    IN  /\ missing =>
             /\ Replied(401, "Unauthorized", "No token provided")
             /\ g.out.verifyCalls = <<>>
        /\ (~missing /\ pieces # 2) =>
             /\ Replied(401, "Unauthorized", "Invalid token format")
             /\ g.out.verifyCalls = <<>>
        /\ (~missing /\ pieces = 2 /\ Before(g.header[1]) \notin BearerSpellings) =>
             /\ Replied(401, "Unauthorized", "Token must be Bearer type")
             /\ g.out.verifyCalls = <<>>
        /\ (~missing /\ pieces = 2 /\ Before(g.header[1]) \in BearerSpellings) =>
             /\ g.out.verifyCalls = <<After(g.header[1])>>
             /\ Admitted \/ Replied(401, "Unauthorized", "Invalid or expired token")
             /\ (~ValidToken(After(g.header[1])) \/ g.fault = "verifier") =>
                  Replied(401, "Unauthorized", "Invalid or expired token")

\* C7 as stated: 'No token provided' when the header is missing; 'Invalid
\* token format' when it is present without exactly two space-separated parts;
\* 'Token must be Bearer type' when it has two parts and another scheme;
\* 'Invalid or expired token' when verification fails; the verifier is invoked
\* only when the first three checks pass.
C7_FirstFailingCheck_Stated ==
  UserGateRan => FirstFailingCheck(gate[1].header = Null)

\* C7 as amended: as stated, except that a header that is present but empty
\* is answered 'No token provided', like a missing one.
C7_FirstFailingCheck ==
  UserGateRan => FirstFailingCheck(gate[1].header = Null \/ gate[1].header = Some(<<>>))

\* C7 witness: a header of three parts (two spaces between scheme and token)
\* has been answered 'Invalid token format' without a call of the verifier.
C7_Witness ==
  /\ UserGateRan /\ gate[1].header # Null
  /\ Cardinality(Spaces(gate[1].header[1])) = 2
  /\ Replied(401, "Unauthorized", "Invalid token format")

\* C8: an unexpected exception raised while the user-auth gate processes the
\* request, one thrown by the verifier for a reason other than the token
\* included, is answered 500 'Authentication failed'.
C8_UnexpectedIs500 ==
  (UserGateRan
     /\ (gate[1].fault = "request"
           \/ (gate[1].fault = "verifier" /\ gate[1].out.verifyCalls # <<>>))) =>
    Replied(500, "Internal Server Error", "Authentication failed")

\* C9: after an admitted request request.user is the claims verify returned
\* for the presented token; after a rejected one (401 or 500) request.user is
\* what it was before the gate ran.
C9_ClaimsAttachedIffAdmitted ==
  UserGateRan =>
    LET g == gate[1]
    IN  /\ Admitted =>
             /\ held # Null
             /\ g.out.user = Some(held[1].claims)
        /\ ~Admitted =>
             /\ g.out.user = g.userBefore
             /\ Len(g.out.replies) = 1 /\ g.out.replies[1].status \in {401, 500}

\* C9 witness: a request that already carried claims was rejected for an
\* expired token.
C9_Witness ==
  /\ UserGateRan /\ ~Admitted
  /\ gate[1].userBefore # Null
  /\ gate[1].out.verifyCalls # <<>>
  /\ held # Null /\ gate[1].out.verifyCalls[1] = Compact(held[1])
  /\ gate[1].at >= held[1].claims.exp

\* C10: the service-auth gate admits a request only if x-token is a single
\* string equal to the configured service token, and an admitted request's
\* request.user is left as it was.
C10_ServiceAdmitsOnlyToken ==
  (ServiceGateRan /\ Admitted) =>
    /\ gate[1].header = [type |-> "string", vals |-> <<"service-token">>]
    /\ gate[1].out.user = gate[1].userBefore
    /\ gate[1].fault = "none"

\* C10 witness: a request that carried claims was admitted by the service gate.
C10_Witness ==
  ServiceGateRan /\ Admitted /\ gate[1].userBefore # Null

\* The service-auth gate's reply for each x-token value when nothing throws,
\* where missing says which values count as carrying no token.
ServiceRejection(missing) ==
  (ServiceGateRan /\ gate[1].fault = "none") =>
    LET x == gate[1].header
    IN  /\ missing => Replied(401, "Unauthorized", "No service token provided")
        /\ (~missing /\ x.type # "string") =>
             Replied(401, "Unauthorized", "Invalid token format")
        /\ (~missing /\ x.type = "string" /\ x.vals[1] # "service-token") =>
             Replied(401, "Unauthorized", "Invalid service token")

\* C11 as stated: header absent gives 401 'No service token provided'; header
\* present but not a single string gives 401 'Invalid token format'; a string
\* of any content, the empty string included, that differs from the configured
\* token gives 401 'Invalid service token'.
C11_ServiceRejection_Stated ==
  ServiceGateRan => ServiceRejection(gate[1].header.type = "undefined")

\* C11 as amended: as stated, except that the empty string is answered
\* 'No service token provided', like an absent header.
C11_ServiceRejection ==
  ServiceGateRan =>
    ServiceRejection(gate[1].header.type = "undefined"
                       \/ gate[1].header = [type |-> "string", vals |-> <<"">>])

\* C11 witness: an array holding the configured token has been answered
\* 'Invalid token format'.
C11_Witness ==
  /\ ServiceGateRan /\ gate[1].fault = "none"
  /\ gate[1].header = [type |-> "object", vals |-> <<"service-token">>]
  /\ Replied(401, "Unauthorized", "Invalid token format")

\* C12: an exception thrown while the service-auth gate checks the token, by
\* ServiceTokenProvider.verify or by reading the request, is caught: the
\* request is not admitted and the one reply is 500 'Internal Server Error',
\* 'Authentication failed'.
C12_ServiceExceptionIs500 ==
  (ServiceGateRan /\ gate[1].out.exception = "unexpected") =>
    /\ Replied(500, "Internal Server Error", "Authentication failed")
    /\ ~Admitted

\* C12 witness: verify threw on the configured token itself and the reply
\* was 500.
C12_Witness ==
  /\ ServiceGateRan /\ gate[1].fault = "verifier"
  /\ gate[1].out.verifyCalls = <<"service-token">>
  /\ gate[1].out.exception = "unexpected"
  /\ Replied(500, "Internal Server Error", "Authentication failed")

\* The causes for which jwt.verify refuses the tokens a client can present now.
CausesNow ==
  {jwtVerify(tok, "jwt-secret", now).cause : tok \in PresentedTokens(held, now)} \ {""}

\* C13: JwtProvider.verify fails with one and the same error, 'Invalid or
\* expired token', whatever the cause (altered claims under the old signature,
\* another secret, expiry, no token structure): any two failing verifications
\* give the caller equal results, and the user-auth gate gives both the same
\* reply, 401 'Invalid or expired token'.
C13_UniformFailure ==
  /\ \A a, b \in PresentedTokens(held, now) :
       LET ra == verify(a, now, FALSE)
           rb == verify(b, now, FALSE)
           ga == AuthMiddleware_authenticate(Some(Bearer \o SP \o a), Null, now, "none")
           gb == AuthMiddleware_authenticate(Some(Bearer \o SP \o b), Null, now, "none")
       IN  (~ra.ok /\ ~rb.ok) =>
             /\ ra = rb
             /\ ra.error = "Invalid or expired token"
             /\ ga.replies = gb.replies /\ ga.user = gb.user
  /\ (UserGateRan /\ gate[1].out.exception = "invalid-token") =>
       Replied(401, "Unauthorized", "Invalid or expired token")

\* C13 witness: jwt.verify refuses presentable tokens for three different
\* causes, and the gate has just rejected the expired one.
C13_Witness ==
  /\ Cardinality(CausesNow) = 3
  /\ UserGateRan /\ ~Admitted
  /\ gate[1].out.verifyCalls = <<Compact(held[1])>>
  /\ gate[1].at >= held[1].claims.exp

\* What decides acceptance of a header at time t: its form, the signature
\* under the configured secret, and t against the token's exp.
Accepts(h, t) ==
  /\ h # Null
  /\ Cardinality(Spaces(h[1])) = 1
  /\ Before(h[1]) \in BearerSpellings
  /\ LET tok == After(h[1])
     IN  /\ Len(tok) = 1 /\ DOMAIN tok[1] = {"jwt"}
         /\ tok[1].jwt.sig = [key |-> "jwt-secret", msg |-> tok[1].jwt.claims]
         /\ t < tok[1].jwt.claims.exp

\* A login other than the one that issued the held token has returned since.
LaterLogin ==
  \E r \in Slots :
    /\ req[r].op = "authenticateUser" /\ req[r].result # Null
    /\ req[r].result[1].token # held[1]

\* C14: token validity is stateless.  Whatever the store holds and whatever
\* registrations, logins and gate requests came before, the user-auth gate
\* admits a request exactly when its header has the Bearer form, the token
\* carries the signature of the configured secret and the time is before the
\* token's exp; an issued token is accepted at every time before its exp and
\* refused from its exp on.
C14_StatelessValidity ==
  /\ (UserGateRan /\ gate[1].fault = "none") =>
       (Admitted <=> Accepts(gate[1].header, gate[1].at))
  /\ held # Null =>
       LET out == AuthMiddleware_authenticate(Some(Bearer \o SP \o Compact(held[1])),
                                              Null, now, "none")
       IN  /\ now < held[1].claims.exp => out.replies = <<>>
           /\ now >= held[1].claims.exp =>
                out.replies = <<[status |-> 401, error |-> "Unauthorized",
                                 message |-> "Invalid or expired token"]>>

\* C14 witness: a held token was admitted after the clock advanced and after
\* a later login returned another token.
C14_Witness ==
  /\ UserGateRan /\ Admitted
  /\ held # Null /\ gate[1].at > held[1].claims.iat
  /\ LaterLogin

\* --------------------------------------------------------- startup claims

Missing(name) == boot.env # Null /\ unset(boot.env[1][name])

\* C15: when JWT_SECRET, JWT_EXPIRES_IN or SERVICE_TOKEN is absent the server
\* never has its routes registered and never listens or serves a request.
C15_MissingConfigFatal ==
  (Missing("JWT_SECRET") \/ Missing("JWT_EXPIRES_IN") \/ Missing("SERVICE_TOKEN")) =>
    /\ ~boot.routes
    /\ ~boot.listening
    /\ boot.served = 0

\* What does hold: without JWT_SECRET or JWT_EXPIRES_IN the server never has
\* its routes registered and never serves.
MissingJwtConfigFatal ==
  (Missing("JWT_SECRET") \/ Missing("JWT_EXPIRES_IN")) =>
    /\ ~boot.routes
    /\ ~boot.listening
    /\ boot.served = 0

\* The recorded result of a direct constructor or factory call.
ResultsOf(call) == {m.result : m \in {x \in boot.made : x.call = call}}

ThrewMessage(result, message) ==
  /\ ~result.ok /\ result.obj = Null
  /\ result.error = Some([name |-> "Error", message |-> message])

\* How a JwtProvider construction must end under the loaded environment.
JwtConstruction(result) ==
  IF Missing("JWT_SECRET")
    THEN ThrewMessage(result, "JWT_SECRET environment variable is required")
  ELSE IF Missing("JWT_EXPIRES_IN")
    THEN ThrewMessage(result, "JWT_EXPIRES_IN environment variable is required")
  ELSE result.ok /\ result.error = Null

\* How a ServiceTokenProvider construction must end.
ServiceTokenConstruction(result) ==
  IF Missing("SERVICE_TOKEN")
    THEN ThrewMessage(result, "SERVICE_TOKEN environment variable is required")
    ELSE result.ok /\ result.error = Null

\* C16: new JwtProvider() throws when JWT_SECRET is unset or empty (tested
\* first) or JWT_EXPIRES_IN is unset or empty; new ServiceTokenProvider()
\* throws when SERVICE_TOKEN is unset or empty; every constructed
\* ServiceTokenProvider holds a non-empty token and its verify('') is false;
\* createAuthMiddleware and createServiceAuthMiddleware throw the same errors.
C16_ConstructionFailsFast ==
  /\ \A r \in ResultsOf("JwtProvider") \cup ResultsOf("createAuthMiddleware") :
       JwtConstruction(r)
  /\ \A r \in ResultsOf("ServiceTokenProvider") \cup ResultsOf("createServiceAuthMiddleware") :
       ServiceTokenConstruction(r)
  /\ \A r \in ResultsOf("ServiceTokenProvider") :
       r.ok => /\ r.obj[1].serviceToken \notin {Null, Some("")}
               /\ ~ServiceTokenProvider_verify_of(r.obj[1], "")
  /\ \A r \in ResultsOf("createServiceAuthMiddleware") :
       r.ok => ~ServiceTokenProvider_verify_of(r.obj[1].serviceTokenProvider, "")

\* C16 witness: with JWT_SECRET and JWT_EXPIRES_IN both missing and
\* SERVICE_TOKEN set, all four calls have been made: the JwtProvider ones
\* threw and the ServiceTokenProvider ones returned.
C16_Witness ==
  /\ Missing("JWT_SECRET") /\ Missing("JWT_EXPIRES_IN") /\ ~Missing("SERVICE_TOKEN")
  /\ Cardinality(boot.made) = 4
  /\ \A r \in ResultsOf("createAuthMiddleware") : ~r.ok
  /\ \A r \in ResultsOf("ServiceTokenProvider") : r.ok

\* A verifyConnection call is waiting for listCollections or for its timer.
Connecting == boot.conn.pc \in {"listCollections", "delay"}

Settled == boot.conn.pc \in {"resolved", "rejected"}

AllFailed(outcomes) == \A k \in 1..Len(outcomes) : ~outcomes[k]

\* The bounded-retry discipline of a verifyConnection call with maxRetries >= 1.
BoundedRetries ==
  LET c == boot.conn
      n == c.maxRetries
  IN  (c.pc # "idle" /\ n >= 1) =>
        /\ c.attempts <= n /\ c.delays < n
        /\ Len(c.outcomes) \in {c.attempts - 1, c.attempts}
        /\ \A k \in 1..Len(c.outcomes) : c.outcomes[k] => k = Len(c.outcomes)
        /\ c.pc = "resolved" <=> (c.outcomes # <<>> /\ c.outcomes[Len(c.outcomes)])
        /\ c.pc = "rejected" <=> (Len(c.outcomes) = n /\ AllFailed(c.outcomes))
        /\ c.pc = "rejected" =>
             c.error = Some([name |-> "MongoNetworkError", attempt |-> n])
        /\ c.pc # "rejected" => c.error = Null

\* A rejected verifyConnection aborts the onReady hook: the hook fails with
\* that error, no route is registered and the process exits.
RejectionAbortsStartup ==
  (boot.conn.pc = "rejected" /\ boot.pc # "configured") =>
    /\ boot.pc \in {"verifying", "hookFailed", "exited"}
    /\ boot.pc # "verifying" => boot.error = boot.conn.error
    /\ ~boot.routes /\ ~boot.listening /\ boot.served = 0

\* C17: verifyConnection with maxRetries = n >= 1 terminates: it makes at
\* most n attempts, returns at the first attempt that succeeds, and when all
\* n attempts fail it rejects with the error of the last attempt, which
\* aborts the onReady hook.
C17_BoundedRetries ==
  /\ [](BoundedRetries /\ RejectionAbortsStartup)
  /\ (Connecting ~> Settled)

\* C17 witness: the server's startup has exited after the fifth attempt of
\* verifyConnection failed.
C17_Witness ==
  /\ boot.pc = "exited" /\ boot.exit = Some(1)
  /\ boot.conn.pc = "rejected" /\ boot.conn.attempts = 5
  /\ boot.error = Some([name |-> "MongoNetworkError", attempt |-> 5])

\* ------------------------------------------------------------ HTTP claims

\* A /users/create request has been answered at slot r.
CreateAnswered(r) == http.at[r].route = "create" /\ http.at[r].reply # Null

\* The body has a malformed email or a password shorter than 6 or longer
\* than 100 characters.
InvalidBody(body) ==
  \/ ~isEmail(body.email)
  \/ Len(body.password) < 6
  \/ Len(body.password) > 100

\* The request at slot r neither looked anything up nor persisted anything.
Untouched(r) == req[r].calls = {} /\ store = http.at[r].before

\* C18: POST /users/create with an invalid body is answered 400 with code
\* 'VALIDATION_ERROR' and a details list, and nothing is looked up or
\* persisted for the request.
C18_InvalidBodyIs400 ==
  \A r \in Slots :
    (CreateAnswered(r) /\ InvalidBody(http.at[r].body[1])) =>
      /\ http.at[r].reply[1].status = 400
      /\ http.at[r].reply[1].code = Some("VALIDATION_ERROR")
      /\ http.at[r].reply[1].details # Null
      /\ Untouched(r)

\* What does hold for an invalid body: it is answered 500 'Internal server
\* error' with no code and no details, and nothing is looked up or persisted.
InvalidBodyIs500 ==
  \A r \in Slots :
    (CreateAnswered(r) /\ InvalidBody(http.at[r].body[1])) =>
      /\ http.at[r].reply[1] =
           [status |-> 500, error |-> Some("Internal server error"), code |-> Null,
            details |-> Null, id |-> Null, email |-> Null]
      /\ Untouched(r)

\* The accounts with this email in a collection.
AccountsIn(coll, email) == {i \in 1..Len(coll) : coll[i].email = email}

\* No collaborator of the service threw while the request at r was served.
NoOutage(r) == req[r].error = Null \/ req[r].error[1].name # "Error"

\* The register scenario at the boundary for the request answered at r.
RegisterScenario(r) ==
  LET at == http.at[r]
      email == at.body[1].email
  IN  IF AccountsIn(at.before, email) = {}
        THEN /\ at.reply[1].status = 201
             /\ Len(store) = Len(at.before) + 1
             /\ Cardinality(AccountsIn(store, email)) = 1
        ELSE /\ at.reply[1].status = 409
             /\ at.reply[1].code = Some("CONFLICT_ERROR")
             /\ store = at.before

\* C19: at the HTTP boundary, POST /users/create with a valid body whose email
\* is not yet registered is answered 201 and exactly one account is
\* persisted; the same payload afterwards is answered 409 with code
\* 'CONFLICT_ERROR' and the store is unchanged.
C19_RegisterThenConflict ==
  \A r \in Slots :
    (CreateAnswered(r) /\ ~InvalidBody(http.at[r].body[1]) /\ NoOutage(r)) =>
      RegisterScenario(r)

\* What does hold: the scenario, in the build whose createUser returns the
\* insert result.
RegisterThenConflictWhenReturned ==
  \A r \in Slots :
    (CreateAnswered(r) /\ ~InvalidBody(http.at[r].body[1]) /\ NoOutage(r)
       /\ http.service = Some("returns insert result")) =>
      RegisterScenario(r)

\* ------------------------------------------------------------ login claims

\* The stored accounts, present when the login looked up, that have the
\* login's email and another password than the one given.
Mismatching(slot) ==
  {i \in 1..slot.seen :
     /\ store[i].email = slot.email
     /\ store[i].password.digest # <<slot.password, store[i].password.salt>>}

\* A login with a registered account's email and a wrong password has failed
\* with BadRequestError, unless the store or the hasher threw.
WrongPasswordFails ==
  \A r \in Slots :
    (LoginDone(r) /\ Mismatching(req[r]) # {}) =>
      /\ req[r].error # Null /\ req[r].result = Null
      /\ req[r].error[1].name # "Error" =>
           req[r].error[1] = [name |-> "BadRequestError",
                              message |-> "Invalid email or password.",
                              statusCode |-> 400, code |-> "BAD_REQUEST_ERROR"]

\* The error of a failed login is one of the fixed errors of the service or
\* of its collaborators: none carries a stored hash.
NoHashExposed ==
  \A r \in Slots :
    (LoginDone(r) /\ req[r].error # Null) =>
      /\ DOMAIN req[r].error[1] \subseteq {"name", "message", "statusCode", "code"}
      /\ req[r].error[1].message \in
           {"User not found.", "Invalid email or password.", "findOne failed",
            "bcrypt compare failed"}

\* A step of an authenticateUser call, its start and its response included,
\* leaves the store, with every stored hash, as it was.
LoginKeepsStore ==
  \A r \in Slots :
    ((req[r].op = "authenticateUser" \/ req'[r].op = "authenticateUser")
       /\ req'[r] # req[r]) =>
      store' = store

\* C20: authenticateUser never modifies the user store: for every registered
\* account a login with a wrong password fails with BadRequestError; in every
\* outcome the stored accounts and their password hashes are the same after
\* the call as before it; and the failure carries no part of the stored hash.
C20_LoginReadOnly ==
  /\ [](WrongPasswordFails /\ NoHashExposed)
  /\ [][LoginKeepsStore]_vars

\* What does hold under concurrent calls: the frame and the errors.
LoginFrame == [](NoHashExposed) /\ [][LoginKeepsStore]_vars

\* C21: a caught value that is no instance of AppError (an Error, a string,
\* null, undefined, an object literal) is written to the log once and answered
\* with 500 and the body {error: 'Internal server error'}, whatever the value
\* holds; only an instance of AppError has its message, status and code copied
\* into the reply.
Handled(r) == http.at[r].route = "handle" /\ http.at[r].reply # Null

InternalServerErrorReply ==
  Reply(500, Some("Internal server error"), Null, Null, Null, Null)

C21_UnexpectedIsOpaque ==
  \A r \in Slots : Handled(r) =>
    LET thrown == http.at[r].body[1]
        reply == http.at[r].reply[1]
    IN  IF thrown \in OtherValues
          THEN /\ reply = InternalServerErrorReply
               /\ http.at[r].logs = <<thrown>>
          ELSE /\ reply.status = thrown.own.statusCode
               /\ reply.error = Some(thrown.own.message)
               /\ reply.code = (IF thrown.own.code # "" THEN Some(thrown.own.code) ELSE Null)
               /\ http.at[r].logs = <<>>

C21_Witness ==
  \E r \in Slots :
    /\ Handled(r)
    /\ http.at[r].body[1] = Raised("Object", ConflictError("User already exists"))
    /\ http.at[r].reply[1] = InternalServerErrorReply
    /\ Len(http.at[r].logs) = 1

\* C22: validateCreateUser collects every violated rule in one pass: for a
\* body in which both email and password are invalid (missing, empty, of the
\* wrong type, malformed, too short or too long) the ValidationError has
\* exactly two details, one for the field email and one for password.
Validated(r) == http.at[r].route = "validate" /\ http.at[r].validated # Null

EmailInvalid(value) == value.type # "string" \/ ~isEmail(value.vals[1])

PasswordInvalid(value) ==
  \/ value.type # "string"
  \/ Len(value.vals[1]) < PASSWORD_MIN
  \/ Len(value.vals[1]) > PASSWORD_MAX

BothInvalid(r) ==
  /\ Validated(r)
  /\ EmailInvalid(http.at[r].body[1].email)
  /\ PasswordInvalid(http.at[r].body[1].password)

DetailsOf(r) == http.at[r].validated[1].error[1].details

FieldsOf(details) == [i \in 1..Len(details) |-> details[i].field]

C22_TwoDetails_Stated ==
  \A r \in Slots : BothInvalid(r) =>
    /\ ~http.at[r].validated[1].ok
    /\ Len(DetailsOf(r)) = 2
    /\ FieldsOf(DetailsOf(r)) = <<"email", "password">>

\* C22 as the validator behaves: one entry for each violated rule, the ones
\* of email before the one of password; the empty string violates both email
\* rules and yields three entries, every other such body yields two.
C22_OneDetailPerRule ==
  \A r \in Slots : BothInvalid(r) =>
    /\ ~http.at[r].validated[1].ok
    /\ raise(http.at[r].validated[1].error[1]).proto = "ValidationError"
    /\ FieldsOf(DetailsOf(r)) =
         (IF http.at[r].body[1].email = StringValue(<<>>)
            THEN <<"email", "email", "password">>
            ELSE <<"email", "password">>)

C22_Witness ==
  \E r \in Slots :
    /\ BothInvalid(r)
    /\ http.at[r].body[1].email = StringValue(<<>>)
    /\ Len(DetailsOf(r)) = 3

\* C23: every account record holds in password the output of hashPassword
\* applied to the registration password, never the password itself, and
\* createUser inserts exactly {email, password: hash}.
Hashes(password) == {hashPassword(password, salt) : salt \in Salts}

Registered(r) == req[r].op = "createUser" /\ req[r].inserted # 0

C23_StoresHashOnly ==
  /\ \A i \in 1..Len(store) :
       /\ DOMAIN store[i] = {"_id", "email", "password"}
       /\ \E password \in Passwords : store[i].password \in Hashes(password)
  /\ \A r \in Slots : Registered(r) =>
       \E hash \in Hashes(req[r].password) :
         store[req[r].inserted] =
           [_id |-> req[r].inserted, email |-> req[r].email, password |-> hash]

C23_Witness ==
  \E r \in Slots :
    /\ Registered(r)
    /\ store[req[r].inserted].password \in Hashes(req[r].password)
    /\ store[req[r].inserted].password.digest[1] = req[r].password

\* C24: the store is append-only: an account, once persisted, is present with
\* the same id, email and hash in every later state, after any sequence of
\* createUser, authenticateUser and gate requests, and the only write to the
\* store is the insert of createUser.
AppendOnly ==
  /\ Len(store') >= Len(store)
  /\ \A i \in 1..Len(store) : store'[i] = store[i]

OnlyInsertWrites ==
  store' # store =>
    \E r \in Slots :
      /\ req[r].op = "createUser" /\ req[r].pc = "insert" /\ req'[r].pc = "done"
      /\ Len(store') = Len(store) + 1
      /\ store'[Len(store')].email = req[r].email

C24_AppendOnly == [][AppendOnly /\ OnlyInsertWrites]_vars

C24_Witness ==
  /\ Len(store) >= 2
  /\ gate # Null
  /\ \E r \in Slots : LoginDone(r) /\ req[r].result # Null

\* C25: within one createUser the steps are strictly sequential: the lookup
\* completes before hashPassword starts and hashPassword completes before the
\* insert starts; when the lookup finds an account the request fails with
\* ConflictError and neither hashPassword nor the insert is invoked.
Conflicted(r) ==
  /\ CreateDone(r)
  /\ req[r].error = Some(ConflictError("There is already a user with this email."))

C25_StrictlySequential ==
  \A r \in Slots : req[r].op = "createUser" =>
    /\ req[r].pc = "find" =>
         req[r].calls = {"findOneByEmail"} /\ req[r].hashedPassword = Null
    /\ "hashPassword" \in req[r].calls =>
         req[r].pc # "find" /\ req[r].existingUser = Null
    /\ req[r].pc = "hash" =>
         req[r].calls = {"findOneByEmail", "hashPassword"} /\ req[r].hashedPassword = Null
    /\ "create" \in req[r].calls =>
         req[r].pc \notin {"find", "hash"} /\ req[r].hashedPassword # Null
    /\ req[r].inserted # 0 => "create" \in req[r].calls
    /\ req[r].existingUser # Null =>
         /\ Conflicted(r)
         /\ req[r].calls = {"findOneByEmail"}
         /\ req[r].hashedPassword = Null /\ req[r].inserted = 0

C25_Witness ==
  \E r, q \in Slots :
    /\ Conflicted(r) /\ req[r].calls = {"findOneByEmail"}
    /\ CreateDone(q) /\ req[q].inserted # 0
    /\ req[q].calls = {"findOneByEmail", "hashPassword", "create"}

\* C26: each gate sends at most one reply per invocation: authenticate calls
\* reply.status(...).send(...) exactly once when it rejects, with 401 or 500,
\* and never when it admits.
\* The request carries what the gate accepts and nothing throws.
Acceptable ==
  LET g == gate[1]
  IN  /\ g.fault = "none"
      /\ IF g.kind = "user"
            THEN /\ g.header # Null
                 /\ Cardinality(Spaces(g.header[1])) = 1
                 /\ Before(g.header[1]) \in BearerSpellings
                 /\ ValidToken(After(g.header[1]))
            ELSE g.header = StringValue(SERVICE_TOKEN)

C26_AtMostOneReply ==
  gate # Null =>
    LET replies == gate[1].out.replies
    IN  /\ Len(replies) <= 1
        /\ Acceptable => replies = <<>>
        /\ ~Acceptable => Len(replies) = 1 /\ replies[1].status \in {401, 500}

C26_Witness ==
  /\ ServiceGateRan /\ gate[1].fault = "none"
  /\ gate[1].header = Undefined
  /\ Len(gate[1].out.replies) = 1 /\ gate[1].out.replies[1].status = 401

\* C27: the bookkeeping of verifyConnection with maxRetries = n: when the
\* first k attempts fail (k < n) and attempt k + 1 succeeds it has logged
\* exactly k warnings, whose counts left are n-1, n-2, ..., n-k in this order,
\* has waited retryDelay exactly k times and has logged 'MongoDB connection
\* verified' exactly once; when all n attempts fail it has logged exactly n-1
\* warnings and neither warns nor waits after the last failure.
\* The warnings of a call of n retries after k failures that were retried.
WarningsAfter(n, k) == [i \in 1..k |-> n - i]

C27_RetryBookkeeping ==
  LET c == boot.conn
      n == c.maxRetries
      k == Len(c.outcomes) - 1
  IN  (n >= 1 /\ c.outcomes # <<>>) =>
        /\ (c.pc = "resolved" /\ k < n) =>
             /\ AllFailed(SubSeq(c.outcomes, 1, k)) /\ c.outcomes[k + 1]
             /\ c.warnings = WarningsAfter(n, k)
             /\ c.delays = k
             /\ c.verified = 1
        /\ (Len(c.outcomes) = n /\ AllFailed(c.outcomes)) =>
             /\ c.pc = "rejected"
             /\ c.warnings = WarningsAfter(n, n - 1)
             /\ c.delays = n - 1
             /\ c.verified = 0
        /\ c.pc = "resolved" => k < n

C27_Witness ==
  /\ boot.conn.pc = "resolved" /\ boot.conn.maxRetries = 3
  /\ boot.conn.outcomes = <<FALSE, FALSE, TRUE>>
  /\ boot.conn.warnings = <<2, 1>> /\ boot.conn.delays = 2 /\ boot.conn.verified = 1

\* C28: verifyConnection resolves only if some connection attempt succeeded
\* during the call, for every value of maxRetries, 0 and negative values
\* included; so the startup hook registers routes only after a verified store
\* connection.
Verified(c) == \E k \in 1..Len(c.outcomes) : c.outcomes[k]

C28_ResolvesOnlyIfVerified ==
  /\ boot.conn.pc = "resolved" => Verified(boot.conn)
  /\ boot.routes => Verified(boot.conn)

\* What does hold: a call with maxRetries >= 1 resolves only after an attempt
\* that succeeded, and the hook, which calls with the default of 5, registers
\* routes only after one.
ResolvesOnlyIfVerifiedWhenPositive ==
  /\ (boot.conn.pc = "resolved" /\ boot.conn.maxRetries >= 1) =>
       Verified(boot.conn) /\ boot.conn.verified = 1
  /\ boot.routes =>
       boot.conn.maxRetries = DEFAULT_MAX_RETRIES /\ Verified(boot.conn)

\* A call with maxRetries <= 0 has resolved without a single attempt.
ResolvedUnverified ==
  /\ boot.conn.pc = "resolved" /\ boot.conn.maxRetries <= 0
  /\ boot.conn.attempts = 0 /\ boot.conn.outcomes = <<>> /\ boot.conn.verified = 0

\* C29: failure atomicity of the create endpoint: whenever
\* UserController.createUser replies with a status other than 201 (400, 409
\* or 500) the request has persisted no account; equivalently, every request
\* that inserted an account is answered 201.
FailureAtomic(r) ==
  LET at == http.at[r]
  IN  /\ at.reply[1].status # 201 => (store = at.before /\ req[r].inserted = 0)
      /\ req[r].inserted # 0 => at.reply[1].status = 201

C29_FailureAtomicity == \A r \in Slots : CreateAnswered(r) => FailureAtomic(r)

\* What does hold: failure atomicity in the build whose createUser returns
\* the insert result.
FailureAtomicWhenReturned ==
  \A r \in Slots :
    (CreateAnswered(r) /\ http.service = Some("returns insert result")) =>
      FailureAtomic(r)

\* A request has been answered 500 and its account is in the store.
PersistedYet500 ==
  \E r \in Slots :
    /\ CreateAnswered(r) /\ http.at[r].reply[1].status = 500
    /\ req[r].inserted # 0 /\ Len(store) = Len(http.at[r].before) + 1
    /\ store[req[r].inserted].email = http.at[r].body[1].email

\* C30: a successful authenticateUser returns the account record exactly as
\* findOneByEmail returned it, with every stored field, the password hash
\* included, together with the token; the controller sends that result as the
\* body of the 200 reply, so the stored hash is part of the successful login
\* response.
LoginAnswered(r) == http.at[r].route = "authenticate" /\ http.at[r].reply # Null

C30_LoginReturnsStoredRecord ==
  \A r \in Slots :
    /\ (LoginDone(r) /\ req[r].result # Null) =>
         LET found == findOneByEmail(store, req[r].email)
         IN  /\ found # Null
             /\ req[r].result[1].user = found[1]
             /\ req[r].result[1].user.password = store[found[1]._id].password
             /\ req[r].result[1].token =
                  sign(authenticateUser_payload(found[1]), now)
    /\ (LoginAnswered(r) /\ req[r].error = Null) =>
         /\ http.at[r].reply[1].status = 200
         /\ http.at[r].reply[1].user = Some(req[r].result[1].user)
         /\ http.at[r].reply[1].token = Some(req[r].result[1].token)
         /\ http.at[r].reply[1].user[1].password \in
              {store[i].password : i \in 1..Len(store)}

C30_Witness ==
  \E r \in Slots :
    /\ LoginAnswered(r) /\ http.at[r].reply[1].status = 200
    /\ Len(store) = 2
    /\ http.at[r].reply[1].user = Some(store[2])
    /\ http.at[r].reply[1].user[1].password.digest[1] = Text(PASSWORD_MAX)

====
